---- MODULE Spec2Model ----
(***************************************************************************)
(* gSheetAgent: the POST /prompt request handler, the ScriptManager that   *)
(* assembles and uploads the Apps Script file list, and the JSON           *)
(* conversions they rely on.                                               *)
(*                                                                         *)
(* JavaScript strings are sequences of characters; a character is a TLA+   *)
(* string (a multi-letter word stands for a run of ordinary characters).   *)
(* JavaScript values are records [t |-> type tag, v |-> payload].          *)
(***************************************************************************)
EXTENDS Integers, Sequences, FiniteSets, TLC

\* ------------------------------------------------------------------------
\* Bounds of the model
\* ------------------------------------------------------------------------
MaxTzLen == 2            \* longest timezone string passed to updateScriptContent
MaxDirEntries == 2       \* most entries of the template directory
MaxPromptTzLen == 1      \* longest timezone string of a POST /prompt body
MaxPromptDirEntries == 1 \* most entries of the template directory under POST /prompt

\* ------------------------------------------------------------------------
\* JavaScript values
\* ------------------------------------------------------------------------
Undefined == [t |-> "undefined", v |-> <<>>]
Null == [t |-> "null", v |-> <<>>]
Str(s) == [t |-> "string", v |-> s]
Num(n) == [t |-> "number", v |-> <<n>>]
Bool(b) == [t |-> "boolean", v |-> <<b>>]
Obj(pairs) == [t |-> "object", v |-> pairs]
Arr(elems) == [t |-> "array", v |-> elems]

\* ToBoolean, as used by !x and x || y
Truthy(x) ==
  CASE x.t = "undefined" -> FALSE
    [] x.t = "null" -> FALSE
    [] x.t = "string" -> x.v # <<>>
    [] x.t = "number" -> x.v[1] # 0
    [] x.t = "boolean" -> x.v[1]
    [] OTHER -> TRUE

\* x || y
OrElse(x, y) == IF Truthy(x) THEN x ELSE y

\* x.k throws a TypeError when x is undefined or null
CanReadProp(x) == x.t \notin {"undefined", "null"}

RECURSIVE LookupKey(_, _, _)
LookupKey(pairs, k, i) ==
  IF i = 0 THEN Undefined
  ELSE IF pairs[i][1] = k THEN pairs[i][2]
  ELSE LookupKey(pairs, k, i - 1)

\* x.k for a value that can be read; only own keys of plain objects matter
GetProp(x, k) == IF x.t = "object" THEN LookupKey(x.v, k, Len(x.v)) ELSE Undefined

HasKey(pairs, k) == \E i \in 1..Len(pairs) : pairs[i][1] = k

\* x.k = val on a plain object: replaces in place or appends
SetProp(x, k, val) ==
  IF HasKey(x.v, k)
  THEN Obj([i \in 1..Len(x.v) |-> IF x.v[i][1] = k THEN <<k, val>> ELSE x.v[i]])
  ELSE Obj(Append(x.v, <<k, val>>))

\* ------------------------------------------------------------------------
\* Strings
\* ------------------------------------------------------------------------
StartsWith(s, p) == Len(s) >= Len(p) /\ SubSeq(s, 1, Len(p)) = p

EndsWith(s, p) == Len(s) >= Len(p) /\ SubSeq(s, Len(s) - Len(p) + 1, Len(s)) = p

\* String.prototype.includes
Includes(s, p) == \E i \in 1..(Len(s) - Len(p) + 1) : SubSeq(s, i, i + Len(p) - 1) = p

RECURSIVE SplitFrom(_, _, _, _)
SplitFrom(s, sep, i, cur) ==
  IF i > Len(s) THEN <<cur>>
  ELSE IF s[i] = sep THEN <<cur>> \o SplitFrom(s, sep, i + 1, <<>>)
  ELSE SplitFrom(s, sep, i + 1, Append(cur, s[i]))

\* String.prototype.split with a one-character separator
Split(s, sep) == SplitFrom(s, sep, 1, <<>>)

\* ------------------------------------------------------------------------
\* JSON.parse and JSON.stringify
\* ------------------------------------------------------------------------
Quote == "\""
Backslash == "\\"
NumberTokens == {"0", "5"}
NumberOf(tok) == IF tok = "0" THEN 0 ELSE 5
TokenOf(n) == IF n = 0 THEN "0" ELSE "5"

ParseFail == [ok |-> FALSE, val |-> Undefined, next |-> 0]
Parsed(val, next) == [ok |-> TRUE, val |-> val, next |-> next]

RECURSIVE SkipWs(_, _)
SkipWs(s, i) == IF i <= Len(s) /\ s[i] = " " THEN SkipWs(s, i + 1) ELSE i

\* the characters after an opening quote up to the closing quote
RECURSIVE ParseString(_, _, _)
ParseString(s, i, acc) ==
  IF i > Len(s) THEN ParseFail
  ELSE IF s[i] = Quote THEN Parsed(Str(acc), i + 1)
  ELSE IF s[i] = Backslash
       THEN IF i + 1 <= Len(s) /\ s[i + 1] \in {Quote, Backslash}
            THEN ParseString(s, i + 2, Append(acc, s[i + 1]))
            ELSE ParseFail
  ELSE ParseString(s, i + 1, Append(acc, s[i]))

RECURSIVE ParseValue(_, _)
RECURSIVE ParseMembers(_, _, _)
RECURSIVE ParseElements(_, _, _)

ParseValue(s, i0) ==
  LET i == SkipWs(s, i0) IN
  IF i > Len(s) THEN ParseFail
  ELSE CASE s[i] = Quote -> ParseString(s, i + 1, <<>>)
         [] s[i] = "null" -> Parsed(Null, i + 1)
         [] s[i] = "true" -> Parsed(Bool(TRUE), i + 1)
         [] s[i] = "false" -> Parsed(Bool(FALSE), i + 1)
         [] s[i] \in NumberTokens -> Parsed(Num(NumberOf(s[i])), i + 1)
         [] s[i] = "{" ->
              LET j == SkipWs(s, i + 1) IN
              IF j <= Len(s) /\ s[j] = "}" THEN Parsed(Obj(<<>>), j + 1)
              ELSE ParseMembers(s, j, <<>>)
         [] s[i] = "[" ->
              LET j == SkipWs(s, i + 1) IN
              IF j <= Len(s) /\ s[j] = "]" THEN Parsed(Arr(<<>>), j + 1)
              ELSE ParseElements(s, j, <<>>)
         [] OTHER -> ParseFail

\* members of an object, from the first character of a key
ParseMembers(s, i0, acc) ==
  LET i == SkipWs(s, i0) IN
  IF i > Len(s) \/ s[i] # Quote THEN ParseFail
  ELSE LET k == ParseString(s, i + 1, <<>>) IN
       IF ~k.ok THEN ParseFail
       ELSE LET c == SkipWs(s, k.next) IN
            IF c > Len(s) \/ s[c] # ":" THEN ParseFail
            ELSE LET val == ParseValue(s, c + 1) IN
                 IF ~val.ok THEN ParseFail
                 ELSE LET e == SkipWs(s, val.next)
                          obj == SetProp(Obj(acc), k.val.v, val.val)
                      IN IF e > Len(s) THEN ParseFail
                         ELSE IF s[e] = "}" THEN Parsed(obj, e + 1)
                         ELSE IF s[e] = "," THEN ParseMembers(s, e + 1, obj.v)
                         ELSE ParseFail

ParseElements(s, i0, acc) ==
  LET val == ParseValue(s, i0) IN
  IF ~val.ok THEN ParseFail
  ELSE LET e == SkipWs(s, val.next) IN
       IF e > Len(s) THEN ParseFail
       ELSE IF s[e] = "]" THEN Parsed(Arr(Append(acc, val.val)), e + 1)
       ELSE IF s[e] = "," THEN ParseElements(s, e + 1, Append(acc, val.val))
       ELSE ParseFail

\* JSON.parse(text): ok = FALSE stands for the SyntaxError it throws
JSONParse(s) ==
  LET r == ParseValue(s, 1) IN
  IF r.ok /\ SkipWs(s, r.next) > Len(s) THEN r ELSE ParseFail

RECURSIVE EscapeFrom(_, _)
EscapeFrom(s, i) ==
  IF i > Len(s) THEN <<>>
  ELSE (IF s[i] \in {Quote, Backslash} THEN <<Backslash, s[i]>> ELSE <<s[i]>>)
       \o EscapeFrom(s, i + 1)

\* the quoted form of a string
QuoteString(s) == <<Quote>> \o EscapeFrom(s, 1) \o <<Quote>>

RECURSIVE Stringify(_)
RECURSIVE StringifyMembers(_, _, _)
RECURSIVE StringifyElements(_, _)

\* JSON.stringify(x) for a value that has a JSON form
Stringify(x) ==
  CASE x.t = "string" -> QuoteString(x.v)
    [] x.t = "number" -> <<TokenOf(x.v[1])>>
    [] x.t = "boolean" -> <<IF x.v[1] THEN "true" ELSE "false">>
    [] x.t = "object" -> <<"{">> \o StringifyMembers(x.v, 1, TRUE) \o <<"}">>
    [] x.t = "array" -> <<"[">> \o StringifyElements(x.v, 1) \o <<"]">>
    [] OTHER -> <<"null">>

\* members with an undefined value are left out
StringifyMembers(pairs, i, first) ==
  IF i > Len(pairs) THEN <<>>
  ELSE IF pairs[i][2].t = "undefined" THEN StringifyMembers(pairs, i + 1, first)
  ELSE (IF first THEN <<>> ELSE <<",">>)
       \o QuoteString(pairs[i][1]) \o <<":">> \o Stringify(pairs[i][2])
       \o StringifyMembers(pairs, i + 1, FALSE)

StringifyElements(elems, i) ==
  IF i > Len(elems) THEN <<>>
  ELSE (IF i = 1 THEN <<>> ELSE <<",">>)
       \o Stringify(elems[i]) \o StringifyElements(elems, i + 1)

\* ------------------------------------------------------------------------
\* The file system seen by ScriptManager
\* ------------------------------------------------------------------------
\* A directory entry, as readdir(withFileTypes) and readFile see it.  A file
\* that cannot be read, or a directory that cannot be listed, has
\* readable = FALSE.
File(name, content) ==
  [name |-> name, isDir |-> FALSE, readable |-> TRUE, content |-> content, entries |-> <<>>]
BrokenFile(name) ==
  [name |-> name, isDir |-> FALSE, readable |-> FALSE, content |-> <<>>, entries |-> <<>>]
Dir(name, entries) ==
  [name |-> name, isDir |-> TRUE, readable |-> TRUE, content |-> <<>>, entries |-> entries]

\* a project manifest as it is stored in the add-on's appsscript.json
StoredManifest ==
  Obj(<< << <<"timeZone">>, Str(<<"America/Toronto">>) >>,
         << <<"runtimeVersion">>, Str(<<"V8">>) >> >>)

\* the entries a template directory is made of, in readdir order
EntryPool ==
  << File(<<"index", ".", "js">>, <<"function onOpen() {}">>),
     File(<<"index", ".", "html">>, <<"<html></html>">>),
     File(<<"generated", ".", "js">>, <<"function stale() {}">>),
     File(<<"appsscript", ".", "json">>, Stringify(StoredManifest)),
     File(<<"notes", ".", "md">>, <<"notes">>),
     BrokenFile(<<"locked", ".", "js">>),
     Dir(<<"sidebar">>, << File(<<"index", ".", "js">>, <<"function show() {}">>),
                          File(<<"content", ".", "html">>, <<"<div></div>">>) >>) >>

\* the strictly increasing index lists of length at most n over 1..m
RECURSIVE IncreasingLists(_, _)
IncreasingLists(m, n) ==
  IF n = 0 THEN {<<>>}
  ELSE LET shorter == IncreasingLists(m, n - 1) IN
       shorter \cup
       {Append(p[1], p[2]) :
          p \in {q \in shorter \X (1..m) :
                   /\ Len(q[1]) = n - 1
                   /\ (q[1] = <<>> \/ q[1][Len(q[1])] < q[2])}}

UnreadableDir ==
  [name |-> <<>>, isDir |-> TRUE, readable |-> FALSE, content |-> <<>>, entries |-> <<>>]

\* template directories: every selection of at most n pool entries, and a
\* directory that cannot be listed
TemplateDirs(n) ==
  {Dir(<<>>, [i \in 1..Len(l) |-> EntryPool[l[i]]]) :
     l \in IncreasingLists(Len(EntryPool), n)} \cup {UnreadableDir}

\* ------------------------------------------------------------------------
\* ScriptManager
\* ------------------------------------------------------------------------
\* The repository holds two copies of the class: "dynamic" synthesizes the
\* project manifest and tags unknown extensions, "addon" reads the manifest
\* from the template directory and skips unknown extensions.
Variants == {"dynamic", "addon"}

SCOPES ==
  Arr(<< Str(<<"https://www.googleapis.com/auth/script.container.ui">>),
         Str(<<"https://www.googleapis.com/auth/script.projects">>),
         Str(<<"https://www.googleapis.com/auth/spreadsheets.currentonly">>) >>)

\* the clock readings the placeholder snippet can carry
Times == {"9:05 am", "9:06 am"}

\* the placeholder snippet generated when no code is given
getDefaultDynamicScript(time) ==
  Str(<<"function performAction() { SpreadsheetApp.getUi().alert('This script was last generated at ",
        time, "'); }">>)

IsDefaultScript(x) == \E time \in Times : x = getDefaultDynamicScript(time)

Thrown(message) == [ok |-> FALSE, message |-> message, files |-> <<>>]

ENOENT == <<"ENOENT: no such file or directory">>
EACCES == <<"EACCES: permission denied">>
ManifestReadError == <<"Failed to read GAS manifest file.">>

\* index of the last "." of a name, 0 when there is none
RECURSIVE LastDot(_, _)
LastDot(name, i) ==
  IF i = 0 THEN 0 ELSE IF name[i] = "." THEN i ELSE LastDot(name, i - 1)

\* path.extname of a file name
ExtName(name) ==
  LET d == LastDot(name, Len(name)) IN
  IF d <= 1 THEN <<>> ELSE SubSeq(name, d, Len(name))

\* path.basename(name, ext)
BaseName(name, ext) ==
  IF ext # <<>> /\ name # ext /\ EndsWith(name, ext)
  THEN SubSeq(name, 1, Len(name) - Len(ext))
  ELSE name

RECURSIVE JoinPath(_, _)
JoinPath(parts, i) ==
  IF i > Len(parts) THEN <<>>
  ELSE (IF i = 1 THEN <<>> ELSE <<"/">>) \o parts[i] \o JoinPath(parts, i + 1)

\* the entry name of a file: its path relative to the template directory
\* (dirs: the names of the enclosing directories), extension stripped
NameWithoutExt(dirs, name) ==
  JoinPath(Append(dirs, BaseName(name, ExtName(name))), 1)

\* the type of a file, "" when the file is skipped
FileType(variant, name) ==
  IF EndsWith(name, <<".", "html">>) THEN "HTML"
  ELSE IF EndsWith(name, <<".", "js">>) THEN "SERVER_JS"
  ELSE IF variant = "dynamic"
       THEN (IF EndsWith(name, <<".", "json">>) THEN "JSON" ELSE "UNKNOWN")
       ELSE ""

FileEntry(name, type, source) == [name |-> name, type |-> type, source |-> source]

\* addFilesFromDirectory: the files list with the directory's files pushed,
\* or the error that the walk throws
RECURSIVE AddEntries(_, _, _, _, _)
AddEntries(variant, dirs, entries, i, files) ==
  IF i > Len(entries) THEN [ok |-> TRUE, message |-> <<>>, files |-> files]
  ELSE LET entry == entries[i] IN
       IF entry.isDir
       THEN IF ~entry.readable THEN Thrown(EACCES)
            ELSE LET sub == AddEntries(variant, Append(dirs, entry.name), entry.entries, 1, files) IN
                 IF ~sub.ok THEN sub
                 ELSE AddEntries(variant, dirs, entries, i + 1, sub.files)
       ELSE IF ~entry.readable THEN Thrown(EACCES)
       ELSE IF FileType(variant, entry.name) = ""
            THEN AddEntries(variant, dirs, entries, i + 1, files)
       ELSE AddEntries(variant, dirs, entries, i + 1,
                       Append(files, FileEntry(NameWithoutExt(dirs, entry.name),
                                               FileType(variant, entry.name),
                                               Str(entry.content))))

addFilesFromDirectory(variant, directory, files) ==
  IF ~directory.readable THEN Thrown(ENOENT)
  ELSE AddEntries(variant, <<>>, directory.entries, 1, files)

\* readGasManifest: the parsed appsscript.json of the template directory
readGasManifest(directory) ==
  LET found == {i \in 1..Len(directory.entries) :
                  /\ ~directory.entries[i].isDir
                  /\ directory.entries[i].name = <<"appsscript", ".", "json">>}
  IN IF ~directory.readable \/ found = {} THEN [ok |-> FALSE, val |-> Undefined]
     ELSE LET entry == directory.entries[CHOOSE i \in found : TRUE]
              parsed == JSONParse(entry.content)
          IN IF entry.readable /\ parsed.ok
             THEN [ok |-> TRUE, val |-> parsed.val]
             ELSE [ok |-> FALSE, val |-> Undefined]

\* the manifest with the timezone argument left out
ManifestIgnoringTimezone(variant, directory, timezone) ==
  IF variant = "dynamic"
  THEN Obj(<< << <<"timeZone">>, Str(<<"America/New_York">>) >>,
              << <<"exceptionLogging">>, Str(<<"CLOUD">>) >>,
              << <<"runtimeVersion">>, Str(<<"V8">>) >>,
              << <<"oauthScopes">>, SCOPES >> >>)
  ELSE readGasManifest(directory).val

\* the project manifest entry's JSON object
Manifest(variant, directory, timezone) ==
  IF variant = "dynamic"
  THEN Obj(<< << <<"timeZone">>, timezone >>,
              << <<"exceptionLogging">>, Str(<<"CLOUD">>) >>,
              << <<"runtimeVersion">>, Str(<<"V8">>) >>,
              << <<"oauthScopes">>, SCOPES >> >>)
  ELSE SetProp(readGasManifest(directory).val, <<"timeZone">>, timezone)

\* the default taken for a null code only
GeneratedCodeNullOnly(generatedCode, time) ==
  IF generatedCode = Null THEN getDefaultDynamicScript(time) ELSE generatedCode

\* the code that is uploaded: the placeholder when none is given
GeneratedCode(generatedCode, time) ==
  IF ~Truthy(generatedCode) THEN getDefaultDynamicScript(time) ELSE generatedCode

\* the two entries every files list starts with
InitialFiles(variant, directory, generatedCode, timezone) ==
  << FileEntry(<<"generated">>, "SERVER_JS", generatedCode),
     FileEntry(<<"appsscript">>, "JSON",
               Str(Stringify(Manifest(variant, directory, timezone)))) >>

\* updateScriptContent up to the remote call: the files list to send
\* (ok, thrown = FALSE), an error it catches and returns as {error}
\* (ok = FALSE, thrown = FALSE), or an error it throws (thrown = TRUE)
AssembleFiles(variant, directory, generatedCode, timezone, time) ==
  IF variant = "addon" /\ ~readGasManifest(directory).ok
  THEN [ok |-> FALSE, thrown |-> TRUE, message |-> ManifestReadError, files |-> <<>>]
  ELSE LET added == addFilesFromDirectory(variant, directory,
                      InitialFiles(variant, directory, GeneratedCode(generatedCode, time), timezone))
       IN [ok |-> added.ok, thrown |-> FALSE, message |-> added.message, files |-> added.files]

\* ------------------------------------------------------------------------
\* The requests and the collaborators' answers
\* ------------------------------------------------------------------------
\* the strings of length at most n over a set of characters
RECURSIVE StringsUpTo(_, _)
StringsUpTo(chars, n) ==
  IF n = 0 THEN {<<>>}
  ELSE LET shorter == StringsUpTo(chars, n - 1) IN
       shorter \cup {Append(str, c) : str \in {x \in shorter : Len(x) = n - 1}, c \in chars}

TzChars == {"Z", Quote, Backslash}

Instructions == {Undefined, Str(<<>>), Str(<<"sum column A">>)}
ScriptIds == {Undefined, Str(<<>>), Str(<<"S1">>)}
Timezones(n) == {Undefined} \cup {Str(tz) : tz \in StringsUpTo(TzChars, n)}

\* a request body with the given fields; an undefined field is absent
Body(instruction, scriptId, timezone) ==
  Obj(SelectSeq(<< << <<"instruction">>, instruction >>,
                   << <<"scriptId">>, scriptId >>,
                   << <<"timezone">>, timezone >> >>,
                LAMBDA pair : pair[2] # Undefined))

Bodies ==
  {Body(i, sid, tz) : i \in Instructions, sid \in ScriptIds, tz \in Timezones(MaxPromptTzLen)}

\* values of the Authorization header; Undefined when the header is absent
AuthHeaders ==
  { Undefined,
    Str(<<"Basic", " ", "t1">>),
    Str(<<"Bearer">>),
    Str(<<"Bearer", " ">>),
    Str(<<"Bearer", " ", " ", "t1">>),
    Str(<<"Bearer", " ", "t1">>),
    Str(<<"Bearer", " ", "t2">>) }

\* texts the chat completion can carry as its content
ReplyTexts ==
  { <<"{", Quote, "explanation", Quote, ":", Quote, "E", Quote, ",",
           Quote, "code", Quote, ":", Quote, "C", Quote, "}">>,
    <<" ", "{", Quote, "code", Quote, ":", Quote, "C", Quote, " ", "}">>,
    <<"{", Quote, "explanation", Quote, ":", Quote, "E", Quote, "}">>,
    <<"{", Quote, "explanation", Quote, ":", Quote, "E", Quote, ",",
           Quote, "code", Quote, ":", Quote, Quote, "}">>,
    <<"{", Quote, "code", Quote, ":", "null", "}">>,
    <<"{", Quote, "code", Quote, ":", Quote, "C", Quote, ",",
           Quote, "code", Quote, ":", Quote, Quote, "}">>,
    <<"{", "}">>,
    <<"null">>,
    <<"5">>,
    <<Quote, "C", Quote>>,
    <<"[", "]">>,
    <<"{", Quote, "code", Quote, ":", Quote, "C", Quote>>,
    <<"Sorry">>,
    <<>> }

\* messages of the errors the remote content API rejects with (never empty)
UpstreamMessages ==
  { <<"Request had insufficient authentication scopes.", " ", "ACCESS_TOKEN_SCOPE_INSUFFICIENT", " ", "details">>,
    <<"ACCESS_TOKEN_SCOPE_INSUFFICIENT">>,
    <<"SERVICE_DISABLED">>,
    <<"Requested entity was not found.">> }

\* the body of a successful updateContent response
ContentData(scriptId) == Obj(<< << <<"scriptId">>, scriptId >> >>)

\* ------------------------------------------------------------------------
\* router.post('/prompt')
\* ------------------------------------------------------------------------
MissingFieldsMessage == <<"Instruction, Script ID or Timezone not provided">>
UnauthorizedMessage == <<"Unauthorized">>
GenerateFailedMessage == <<"Failed to generate response from LLM">>
DecodeFailedMessage == <<"Failed to decode response from LLM">>
ReinstallMessage ==
  <<"This document hasn't been properly authorized to do an end-to-end automation. Please reinstall the add-on.">>
NoExplanation == <<"No explanation provided">>

\* the check without its timezone clause
MissingFieldNoTimezone(data) ==
  \/ ~Truthy(GetProp(data, <<"instruction">>))
  \/ ~Truthy(GetProp(data, <<"scriptId">>))

\* !data.instruction || !data.scriptId || !data.timezone
MissingField(data) ==
  \/ ~Truthy(GetProp(data, <<"instruction">>))
  \/ ~Truthy(GetProp(data, <<"scriptId">>))
  \/ ~Truthy(GetProp(data, <<"timezone">>))

\* the token taken from the header whatever its scheme is
getAuthorizationTokenAnyScheme(authHeader) ==
  IF ~Truthy(authHeader) THEN Null
  ELSE IF Len(Split(authHeader.v, " ")) >= 2 THEN Str(Split(authHeader.v, " ")[2])
  ELSE Undefined

\* the token of an Authorization header, null when there is no Bearer prefix
getAuthorizationToken(authHeader) ==
  IF ~Truthy(authHeader) \/ ~StartsWith(authHeader.v, <<"Bearer", " ">>)
  THEN Null
  ELSE Str(Split(authHeader.v, " ")[2])

\* the scope error recognised only when it is the whole message
UserMessageExactMatch(errorMessage) ==
  IF errorMessage = <<"ACCESS_TOKEN_SCOPE_INSUFFICIENT">>
  THEN ReinstallMessage
  ELSE errorMessage

\* the error text shown for a failed upload
UserMessage(errorMessage) ==
  IF Includes(errorMessage, <<"ACCESS_TOKEN_SCOPE_INSUFFICIENT">>)
  THEN ReinstallMessage
  ELSE errorMessage

\* the reply decoded with an empty object standing in for unparsable text
DecodeReplyWithFallback(response) ==
  LET parsed == IF JSONParse(response).ok THEN JSONParse(response).val ELSE Obj(<<>>) IN
  IF ~CanReadProp(parsed)
  THEN [ok |-> FALSE, receivedInstruction |-> Undefined, receivedCode |-> Undefined]
  ELSE [ok |-> TRUE,
        receivedInstruction |-> OrElse(GetProp(parsed, <<"explanation">>), Str(<<"No explanation provided">>)),
        receivedCode |-> OrElse(GetProp(parsed, <<"code">>), Str(<<>>))]

\* JSON.parse(response) and the two property reads that follow it:
\* ok = FALSE when any of them throws
DecodeReply(response) ==
  LET parsed == JSONParse(response) IN
  IF ~parsed.ok \/ ~CanReadProp(parsed.val)
  THEN [ok |-> FALSE, receivedInstruction |-> Undefined, receivedCode |-> Undefined]
  ELSE [ok |-> TRUE,
        receivedInstruction |-> OrElse(GetProp(parsed.val, <<"explanation">>), Str(NoExplanation)),
        receivedCode |-> OrElse(GetProp(parsed.val, <<"code">>), Str(<<>>))]

ErrorBody(message) == Obj(<< << <<"error">>, Str(message) >> >>)
SuccessBody(receivedInstruction) == Obj(<< << <<"received_instruction">>, receivedInstruction >> >>)
Response(status, json) == [status |-> status, json |-> json]

\* ------------------------------------------------------------------------
\* State
\* ------------------------------------------------------------------------
\* req[r] holds the inputs of request r (body, authorization, or the args of a
\* call of updateScriptContent on its own), the handler's locals (token,
\* response, receivedInstruction, receivedCode, uploadResponse), the error
\* updateScriptContent threw (thrown), the query of a GET /setup request, the
\* template text it read (jsContent), the Content-Type it set (type), the
\* method, path and Origin header of the request, the middleware it passed
\* through (passed), the responses sent and the position pc.
VARIABLES
  aws,          \* the AWS account: the stacks, the Lambda function
  deployment,   \* the run of the deployment script: its locals and position
  documentProperties,  \* the document properties of the spreadsheet
  ui,           \* the spreadsheet's menu and sidebar
  cache,        \* the entries of the legacy service's response cache
  env,          \* the process environment: LATEST_BUILD, CORS_ORIGIN
  variant,      \* which copy of a class or module kept twice is deployed
  gasDir,       \* the template directory on disk
  req,          \* per request: inputs, locals, position
  chatCalls,    \* the chat-completion calls made so far
  updateCalls   \* the remote updateContent calls made so far

\* the state outside the server process
outside == <<aws, deployment, documentProperties, ui>>

vars == <<outside, cache, env, variant, gasDir, req, chatCalls, updateCalls>>

\* no deployment is running and no spreadsheet is open
NothingOutside ==
  /\ aws = "none"
  /\ deployment = "none"
  /\ documentProperties = "none"
  /\ ui = "none"

Reqs == {1}

\* config.cors.origin when CORS_ORIGIN is not set
DefaultOrigin == <<"https://", "*", ".", "googleusercontent", ".", "com">>

\* process.env and the configuration read from it
Env(latestBuild, corsOrigin) ==
  [LATEST_BUILD |-> latestBuild,
   CORS_ORIGIN |-> IF Truthy(corsOrigin) THEN corsOrigin.v ELSE DefaultOrigin]

DefaultEnv == Env(Undefined, Undefined)

\* a POST /prompt request as the handler receives it
PromptRequest(body, authorization) ==
  [route |-> "prompt", pc |-> "RECEIVED", body |-> body, authorization |-> authorization,
   args |-> <<>>, token |-> Undefined, response |-> Undefined,
   receivedInstruction |-> Undefined, receivedCode |-> Undefined,
   uploadResponse |-> Undefined, thrown |-> Undefined,
   query |-> Undefined, jsContent |-> Undefined, type |-> "",
   method |-> "POST", path |-> "/prompt", origin |-> Undefined, passed |-> <<>>, sent |-> <<>>]

\* a call updateScriptContent(scriptId, generatedCode, timezone) of its own
UpdateRequest(scriptId, generatedCode, timezone) ==
  [route |-> "direct", pc |-> "CALLING", body |-> Undefined, authorization |-> Undefined,
   args |-> <<scriptId, generatedCode, timezone>>, token |-> Str(<<"t1">>), response |-> Undefined,
   receivedInstruction |-> Undefined, receivedCode |-> Undefined,
   uploadResponse |-> Undefined, thrown |-> Undefined,
   query |-> Undefined, jsContent |-> Undefined, type |-> "",
   method |-> "", path |-> "", origin |-> Undefined, passed |-> <<>>, sent |-> <<>>]

\* a GET /setup request as the handler receives it
SetupRequest(query) ==
  [route |-> "setup", pc |-> "RECEIVED", body |-> Undefined, authorization |-> Undefined,
   args |-> <<>>, token |-> Undefined, response |-> Undefined,
   receivedInstruction |-> Undefined, receivedCode |-> Undefined,
   uploadResponse |-> Undefined, thrown |-> Undefined,
   query |-> query, jsContent |-> Undefined, type |-> "",
   method |-> "GET", path |-> "/setup", origin |-> Undefined, passed |-> <<>>, sent |-> <<>>]

Init ==
  /\ NothingOutside
  /\ cache = {}
  /\ env = DefaultEnv
  /\ variant \in Variants
  /\ gasDir \in TemplateDirs(MaxPromptDirEntries)
  /\ req \in [Reqs -> {PromptRequest(b, a) : b \in Bodies, a \in AuthHeaders}]
  /\ chatCalls = <<>>
  /\ updateCalls = <<>>

\* the response written a second time, as a handler does that answers in a
\* branch and falls through to the answer after it
SendTwice(r, status, json, locals) ==
  req' = [req EXCEPT ![r] = [locals EXCEPT !.pc = "CLOSED",
                                           !.sent = Append(Append(@, Response(status, json)),
                                                           Response(status, json))]]

\* res.status(status).json(json), ending the handler
Send(r, status, json, locals) ==
  req' = [req EXCEPT ![r] = [locals EXCEPT !.pc = "CLOSED",
                                           !.sent = Append(@, Response(status, json))]]

Valid(r) ==
  /\ req[r].route = "prompt"
  /\ req[r].pc = "RECEIVED"
  /\ ~MissingField(req[r].body)
  /\ Truthy(getAuthorizationToken(req[r].authorization))

\* the three backquotes that delimit the instruction
Fence == "<fence>"

\* the user message of the chat call
UserContent(prompt) == <<Fence>> \o prompt \o <<Fence>>

\* ------------------------------------------------------------------------
\* Actions of POST /prompt
\* ------------------------------------------------------------------------
\* a body field is missing: 400
RejectBadRequest(r) ==
  /\ req[r].route = "prompt"
  /\ req[r].pc = "RECEIVED"
  /\ MissingField(req[r].body)
  /\ Send(r, 400, ErrorBody(MissingFieldsMessage), req[r])
  /\ UNCHANGED <<outside, cache, env, variant, gasDir, chatCalls, updateCalls>>

\* no bearer token: 401
RejectUnauthorized(r) ==
  /\ req[r].route = "prompt"
  /\ req[r].pc = "RECEIVED"
  /\ ~MissingField(req[r].body)
  /\ ~Truthy(getAuthorizationToken(req[r].authorization))
  /\ Send(r, 401, ErrorBody(UnauthorizedMessage),
          [req[r] EXCEPT !.token = getAuthorizationToken(req[r].authorization)])
  /\ UNCHANGED <<outside, cache, env, variant, gasDir, chatCalls, updateCalls>>

\* getAppsScriptCode cannot read the system prompt file: it returns null
\* without calling the chat endpoint
InstructionFileUnreadable(r) ==
  /\ Valid(r)
  /\ Send(r, 500, ErrorBody(GenerateFailedMessage),
          [req[r] EXCEPT !.token = getAuthorizationToken(req[r].authorization),
                         !.response = Null])
  /\ UNCHANGED <<outside, cache, env, variant, gasDir, chatCalls, updateCalls>>

\* the request is valid: the chat-completion call is made
StartChat(r) ==
  /\ Valid(r)
  /\ req' = [req EXCEPT ![r].token = getAuthorizationToken(req[r].authorization),
                        ![r].pc = "TRANSLATING"]
  /\ chatCalls' = Append(chatCalls,
                         [req |-> r, user |-> UserContent(GetProp(req[r].body, <<"instruction">>).v)])
  /\ UNCHANGED <<outside, cache, env, variant, gasDir, updateCalls>>

\* the null result handed to JSON.parse instead of being answered at once
ChatFailsUndetected(r) ==
  /\ req[r].pc = "TRANSLATING"
  /\ Send(r, 500, ErrorBody(DecodeFailedMessage), [req[r] EXCEPT !.response = Null])
  /\ UNCHANGED <<outside, cache, env, variant, gasDir, chatCalls, updateCalls>>

\* the chat call rejects, answers without a first choice, or answers with a
\* null content: getAppsScriptCode yields null
ChatFails(r) ==
  /\ req[r].pc = "TRANSLATING"
  /\ Send(r, 500, ErrorBody(GenerateFailedMessage), [req[r] EXCEPT !.response = Null])
  /\ UNCHANGED <<outside, cache, env, variant, gasDir, chatCalls, updateCalls>>

\* the chat call resolves with a first message that has no content member:
\* getAppsScriptCode yields undefined, which JSON.parse rejects
ReplyWithoutContent(r) ==
  /\ req[r].pc = "TRANSLATING"
  /\ Send(r, 500, ErrorBody(DecodeFailedMessage), [req[r] EXCEPT !.response = Undefined])
  /\ UNCHANGED <<outside, cache, env, variant, gasDir, chatCalls, updateCalls>>

\* the locals of the handler once the reply text is decoded
Decoded(r, text) ==
  [req[r] EXCEPT !.response = Str(text),
                 !.receivedInstruction = DecodeReply(text).receivedInstruction,
                 !.receivedCode = DecodeReply(text).receivedCode]

\* the files updateScriptContent assembles for a /prompt request
PromptFiles(r, text, time) ==
  AssembleFiles(variant, gasDir, DecodeReply(text).receivedCode,
                GetProp(req[r].body, <<"timezone">>), time)

\* the chat call answers with a text that cannot be decoded
DecodeFails(r) ==
  /\ req[r].pc = "TRANSLATING"
  /\ \E text \in ReplyTexts :
       /\ ~DecodeReply(text).ok
       /\ Send(r, 500, ErrorBody(DecodeFailedMessage), [req[r] EXCEPT !.response = Str(text)])
  /\ UNCHANGED <<outside, cache, env, variant, gasDir, chatCalls, updateCalls>>

\* the reply is decoded, but updateScriptContent fails while it assembles
\* the files: no remote call is made
AssemblyFails(r) ==
  /\ req[r].pc = "TRANSLATING"
  /\ \E text \in ReplyTexts, time \in Times :
       /\ DecodeReply(text).ok
       /\ ~PromptFiles(r, text, time).ok
       /\ Send(r, 500, ErrorBody(UserMessage(PromptFiles(r, text, time).message)),
               IF PromptFiles(r, text, time).thrown
               THEN [Decoded(r, text) EXCEPT !.thrown = Str(PromptFiles(r, text, time).message)]
               ELSE [Decoded(r, text) EXCEPT
                       !.uploadResponse = ErrorBody(PromptFiles(r, text, time).message)])
  /\ UNCHANGED <<outside, cache, env, variant, gasDir, chatCalls, updateCalls>>

\* the upload made through an uploader that the requests share: it holds the
\* token of the request that built it last
StartUploadSharedUploader(r) ==
  /\ req[r].pc = "TRANSLATING"
  /\ \E text \in ReplyTexts, time \in Times :
       /\ DecodeReply(text).ok
       /\ PromptFiles(r, text, time).ok
       /\ req' = [req EXCEPT ![r] = [Decoded(r, text) EXCEPT !.pc = "UPLOADING"]]
       /\ updateCalls' = Append(updateCalls,
                                [req |-> r,
                                 token |-> req[CHOOSE q \in DOMAIN req :
                                                 /\ req[q].token # Undefined
                                                 /\ \A p \in DOMAIN req :
                                                      req[p].token # Undefined => p <= q].token,
                                 scriptId |-> GetProp(req[r].body, <<"scriptId">>),
                                 files |-> PromptFiles(r, text, time).files])
  /\ UNCHANGED <<outside, cache, env, variant, gasDir, chatCalls>>

\* the reply is decoded and the files are assembled: the remote
\* updateContent call is made
StartUpload(r) ==
  /\ req[r].pc = "TRANSLATING"
  /\ \E text \in ReplyTexts, time \in Times :
       /\ DecodeReply(text).ok
       /\ PromptFiles(r, text, time).ok
       /\ req' = [req EXCEPT ![r] = [Decoded(r, text) EXCEPT !.pc = "UPLOADING"]]
       /\ updateCalls' = Append(updateCalls,
                                [req |-> r, token |-> req[r].token,
                                 scriptId |-> GetProp(req[r].body, <<"scriptId">>),
                                 files |-> PromptFiles(r, text, time).files])
  /\ UNCHANGED <<outside, cache, env, variant, gasDir, chatCalls>>

\* the answer when the returned error is not looked at
AfterUploadUnchecked(r, uploadResponse) ==
  Send(r, 200, SuccessBody(req[r].receivedInstruction),
       [req[r] EXCEPT !.uploadResponse = uploadResponse])

\* what the handler answers once updateScriptContent has returned
AfterUpload(r, uploadResponse) ==
  IF Truthy(GetProp(uploadResponse, <<"error">>))
  THEN Send(r, 500, ErrorBody(UserMessage(GetProp(uploadResponse, <<"error">>).v)),
            [req[r] EXCEPT !.uploadResponse = uploadResponse])
  ELSE Send(r, 200, SuccessBody(req[r].receivedInstruction),
            [req[r] EXCEPT !.uploadResponse = uploadResponse])

\* the remote call succeeds
UpdateResolves(r) ==
  /\ req[r].route = "prompt"
  /\ req[r].pc = "UPLOADING"
  /\ AfterUpload(r, ContentData(GetProp(req[r].body, <<"scriptId">>)))
  /\ UNCHANGED <<outside, cache, env, variant, gasDir, chatCalls, updateCalls>>

\* the rejected remote call made again
UpdateRejectsRetry(r) ==
  /\ req[r].route = "prompt"
  /\ req[r].pc = "UPLOADING"
  /\ updateCalls' = Append(updateCalls, updateCalls[Len(updateCalls)])
  /\ UNCHANGED <<outside, cache, env, variant, gasDir, req, chatCalls>>

\* the remote call rejects: updateScriptContent returns {error: message}
UpdateRejects(r) ==
  /\ req[r].route = "prompt"
  /\ req[r].pc = "UPLOADING"
  /\ \E message \in UpstreamMessages : AfterUpload(r, ErrorBody(message))
  /\ UNCHANGED <<outside, cache, env, variant, gasDir, chatCalls, updateCalls>>

\* ------------------------------------------------------------------------
\* updateScriptContent called on its own
\* ------------------------------------------------------------------------
\* the code arguments of the model; Undefined when the argument is omitted
CodeArgs == {Undefined, Null, Str(<<>>), Str(<<"C">>), Str(<<"D", Quote>>)}

DefaultTimezone == Str(<<"America/New_York">>)

\* the parameter defaults: generatedCode = null, timezone = "America/New_York"
CodeParam(args) == IF args[2] = Undefined THEN Null ELSE args[2]
TimezoneParam(args) == IF args[3] = Undefined THEN DefaultTimezone ELSE args[3]

InitUpdate ==
  /\ NothingOutside
  /\ cache = {}
  /\ env = DefaultEnv
  /\ variant \in Variants
  /\ gasDir \in TemplateDirs(MaxDirEntries)
  /\ req \in [Reqs -> {UpdateRequest(Str(<<"S1">>), code, tz) :
                         code \in CodeArgs, tz \in Timezones(MaxTzLen)}]
  /\ chatCalls = <<>>
  /\ updateCalls = <<>>

CallFiles(r, time) ==
  AssembleFiles(variant, gasDir, CodeParam(req[r].args), TimezoneParam(req[r].args), time)

\* the call returns uploadResponse
Return(r, uploadResponse) ==
  req' = [req EXCEPT ![r].pc = "RETURNED", ![r].uploadResponse = uploadResponse]

\* the manifest file cannot be read: the call throws
CallThrows(r) ==
  /\ req[r].route = "direct"
  /\ req[r].pc = "CALLING"
  /\ \E time \in Times :
       /\ CallFiles(r, time).thrown
       /\ req' = [req EXCEPT ![r].pc = "THREW", ![r].thrown = Str(CallFiles(r, time).message)]
  /\ UNCHANGED <<outside, cache, env, variant, gasDir, chatCalls, updateCalls>>

\* the template directory cannot be walked: the call returns {error}
CallAssemblyFails(r) ==
  /\ req[r].route = "direct"
  /\ req[r].pc = "CALLING"
  /\ \E time \in Times :
       /\ ~CallFiles(r, time).thrown
       /\ ~CallFiles(r, time).ok
       /\ Return(r, ErrorBody(CallFiles(r, time).message))
  /\ UNCHANGED <<outside, cache, env, variant, gasDir, chatCalls, updateCalls>>

\* the files are assembled: the remote updateContent call is made
CallStartsUpload(r) ==
  /\ req[r].route = "direct"
  /\ req[r].pc = "CALLING"
  /\ \E time \in Times :
       /\ CallFiles(r, time).ok
       /\ req' = [req EXCEPT ![r].pc = "UPLOADING"]
       /\ updateCalls' = Append(updateCalls,
                                [req |-> r, token |-> req[r].token,
                                 scriptId |-> req[r].args[1],
                                 files |-> CallFiles(r, time).files])
  /\ UNCHANGED <<outside, cache, env, variant, gasDir, chatCalls>>

CallResolves(r) ==
  /\ req[r].route = "direct"
  /\ req[r].pc = "UPLOADING"
  /\ Return(r, ContentData(req[r].args[1]))
  /\ UNCHANGED <<outside, cache, env, variant, gasDir, chatCalls, updateCalls>>

CallRejects(r) ==
  /\ req[r].route = "direct"
  /\ req[r].pc = "UPLOADING"
  /\ \E message \in UpstreamMessages : Return(r, ErrorBody(message))
  /\ UNCHANGED <<outside, cache, env, variant, gasDir, chatCalls, updateCalls>>

NextUpdate ==
  \E r \in Reqs :
    \/ CallThrows(r)
    \/ CallAssemblyFails(r)
    \/ CallStartsUpload(r)
    \/ CallResolves(r)
    \/ CallRejects(r)

SpecUpdate == InitUpdate /\ [][NextUpdate]_vars

Next ==
  \E r \in Reqs :
    \/ RejectBadRequest(r)
    \/ RejectUnauthorized(r)
    \/ InstructionFileUnreadable(r)
    \/ StartChat(r)
    \/ ChatFails(r)
    \/ ReplyWithoutContent(r)
    \/ DecodeFails(r)
    \/ AssemblyFails(r)
    \/ StartUpload(r)
    \/ UpdateResolves(r)
    \/ UpdateRejects(r)

Spec == Init /\ [][Next]_vars

\* The same handler when every collaborator call returns or fails: a request
\* that has a step to take takes it (the event loop runs every continuation
\* whose promise has settled).
\* The requests it is started with: the timezone decides the path of a request
\* only by being absent, empty or given.
InitLive ==
  /\ NothingOutside
  /\ cache = {}
  /\ env = DefaultEnv
  /\ variant \in Variants
  /\ gasDir \in TemplateDirs(MaxPromptDirEntries)
  /\ req \in [Reqs -> {PromptRequest(Body(i, sid, tz), a) :
                         i \in Instructions, sid \in ScriptIds,
                         tz \in {Undefined, Str(<<>>), Str(<<"Z">>)}, a \in AuthHeaders}]
  /\ chatCalls = <<>>
  /\ updateCalls = <<>>

SpecLive == InitLive /\ [][Next]_vars /\ WF_vars(Next)

\* ------------------------------------------------------------------------
\* router.get('/setup')
\* ------------------------------------------------------------------------
\* The text of the setup.js template: the declaration of failureMessage (the
\* placeholder), the test of it and its use in the alert. One quote is one
\* character, so the placeholder ends with two of them.
TemplateHead == <<"document.addEventListener('DOMContentLoaded', function() {", "const", " ">>
Placeholder == <<"failureMessage", " = ", "'", "'">>
TemplateTail ==
  <<";", "if (!", "failureMessage", ") { google.script.run.finishSetup(); } else {",
    "failureAlert.innerHTML = ${", "failureMessage", "}", "} });">>
Template == TemplateHead \o Placeholder \o TemplateTail

InternalErrorMessage == <<"Internal server error">>
MissingQueryMessage == <<"authToken and scriptId must be provided">>
EnableApiMessage ==
  <<"The Apps Script API has not been enabled for this project. Please enable it by visiting the Google Developers Console.">>

\* s.indexOf(p) counted from 1; 0 when p does not occur
IndexOf(s, p) ==
  IF Includes(s, p)
  THEN CHOOSE i \in 1..(Len(s) - Len(p) + 1) :
         /\ SubSeq(s, i, i + Len(p) - 1) = p
         /\ \A j \in 1..(i - 1) : SubSeq(s, j, j + Len(p) - 1) # p
  ELSE 0

\* a replace that leaves the text as it is
ReplaceNothing(s, p, replacement) == s

\* s.replace(p, replacement) for a string p: the first occurrence of p is
\* replaced (the replacements of the model hold no "$" pattern)
Replace(s, p, replacement) ==
  IF IndexOf(s, p) = 0 THEN s
  ELSE SubSeq(s, 1, IndexOf(s, p) - 1) \o replacement
         \o SubSeq(s, IndexOf(s, p) + Len(p), Len(s))

\* `${e}` for e = new Error(message)
ErrorToString(message) ==
  IF message = <<>> THEN <<"Error">> ELSE <<"Error", ": ">> \o message

\* the failure text without the rule for SERVICE_DISABLED
FailureTextRaw(message) == ErrorToString(message)

\* the text the catch block puts into the template for an error e
FailureText(message) ==
  IF Includes(message, <<"SERVICE_DISABLED">>)
  THEN EnableApiMessage
  ELSE ErrorToString(message)

\* jsContent after the catch block
WithFailure(jsContent, message) ==
  Replace(jsContent, <<"failureMessage", " = ", "'", "'">>,
          <<"failureMessage", " = ", "'">> \o FailureText(message) \o <<"'">>)

\* the query strings of the model: each parameter absent, empty or given
QueryValues(given) == {Undefined, Str(<<>>), Str(given)}

Query(authToken, scriptId) ==
  Obj((IF authToken = Undefined THEN <<>> ELSE << << <<"authToken">>, authToken >> >>)
      \o (IF scriptId = Undefined THEN <<>> ELSE << << <<"scriptId">>, scriptId >> >>))

Queries == {Query(a, s) : a \in QueryValues(<<"t1">>), s \in QueryValues(<<"S1">>)}

InitSetup ==
  /\ NothingOutside
  /\ cache = {}
  /\ env = DefaultEnv
  /\ variant \in Variants
  /\ gasDir \in TemplateDirs(MaxPromptDirEntries)
  /\ req \in [Reqs -> {SetupRequest(q) : q \in Queries}]
  /\ chatCalls = <<>>
  /\ updateCalls = <<>>

\* res.set('Content-Type', 'application/javascript'); res.send(jsContent):
\* the response carries the script text where a JSON response carries its body
SendScript(r, jsContent, locals) ==
  req' = [req EXCEPT ![r] = [locals EXCEPT !.pc = "CLOSED",
                                           !.type = "application/javascript",
                                           !.jsContent = Str(jsContent),
                                           !.sent = Append(@, Response(200, Str(jsContent)))]]

\* the setup step fails and the failure escapes to the outer catch
SetupFailsUncaught(r, message, locals) ==
  Send(r, 500, ErrorBody(InternalErrorMessage), locals)

\* the setup step fails with an error of the given message: the inner catch
\* rewrites jsContent and the script is sent
SetupFails(r, message, locals) ==
  SendScript(r, WithFailure(locals.jsContent.v, message), locals)

\* the files updateScriptContent(scriptId) assembles
SetupFiles(time) ==
  AssembleFiles(variant, gasDir, CodeParam(<<Undefined, Undefined, Undefined>>),
                TimezoneParam(<<Undefined, Undefined, Undefined>>), time)

QueryComplete(r) ==
  /\ Truthy(GetProp(req[r].query, <<"authToken">>))
  /\ Truthy(GetProp(req[r].query, <<"scriptId">>))

\* the template file cannot be read: 500
SetupTemplateUnreadable(r) ==
  /\ req[r].route = "setup"
  /\ req[r].pc = "RECEIVED"
  /\ Send(r, 500, ErrorBody(InternalErrorMessage), req[r])
  /\ UNCHANGED <<outside, cache, env, variant, gasDir, chatCalls, updateCalls>>

\* the template file is read
SetupReadsTemplate(r) ==
  /\ req[r].route = "setup"
  /\ req[r].pc = "RECEIVED"
  /\ req' = [req EXCEPT ![r].pc = "SETTING_UP", ![r].jsContent = Str(Template)]
  /\ UNCHANGED <<outside, cache, env, variant, gasDir, chatCalls, updateCalls>>

\* authToken or scriptId is missing
SetupRejectsQuery(r) ==
  /\ req[r].route = "setup"
  /\ req[r].pc = "SETTING_UP"
  /\ ~QueryComplete(r)
  /\ SetupFails(r, MissingQueryMessage,
                [req[r] EXCEPT !.thrown = Str(MissingQueryMessage)])
  /\ UNCHANGED <<outside, cache, env, variant, gasDir, chatCalls, updateCalls>>

\* updateScriptContent throws: the manifest file cannot be read
SetupThrows(r) ==
  /\ req[r].route = "setup"
  /\ req[r].pc = "SETTING_UP"
  /\ QueryComplete(r)
  /\ \E time \in Times :
       /\ SetupFiles(time).thrown
       /\ SetupFails(r, SetupFiles(time).message,
                     [req[r] EXCEPT !.token = GetProp(req[r].query, <<"authToken">>),
                                    !.thrown = Str(SetupFiles(time).message)])
  /\ UNCHANGED <<outside, cache, env, variant, gasDir, chatCalls, updateCalls>>

\* updateScriptContent returns {error} without a remote call
SetupAssemblyFails(r) ==
  /\ req[r].route = "setup"
  /\ req[r].pc = "SETTING_UP"
  /\ QueryComplete(r)
  /\ \E time \in Times :
       /\ ~SetupFiles(time).thrown
       /\ ~SetupFiles(time).ok
       /\ SetupFails(r, SetupFiles(time).message,
                     [req[r] EXCEPT !.token = GetProp(req[r].query, <<"authToken">>),
                                    !.uploadResponse = ErrorBody(SetupFiles(time).message)])
  /\ UNCHANGED <<outside, cache, env, variant, gasDir, chatCalls, updateCalls>>

\* the files are assembled: the remote updateContent call is made
SetupStartsUpload(r) ==
  /\ req[r].route = "setup"
  /\ req[r].pc = "SETTING_UP"
  /\ QueryComplete(r)
  /\ \E time \in Times :
       /\ SetupFiles(time).ok
       /\ req' = [req EXCEPT ![r].pc = "UPLOADING",
                             ![r].token = GetProp(req[r].query, <<"authToken">>)]
       /\ updateCalls' = Append(updateCalls,
                                [req |-> r, token |-> GetProp(req[r].query, <<"authToken">>),
                                 scriptId |-> GetProp(req[r].query, <<"scriptId">>),
                                 files |-> SetupFiles(time).files])
  /\ UNCHANGED <<outside, cache, env, variant, gasDir, chatCalls>>

\* the remote call resolves: the template is sent as it was read
SetupUpdateResolves(r) ==
  /\ req[r].route = "setup"
  /\ req[r].pc = "UPLOADING"
  /\ SendScript(r, req[r].jsContent.v,
                [req[r] EXCEPT !.uploadResponse =
                                 ContentData(GetProp(req[r].query, <<"scriptId">>))])
  /\ UNCHANGED <<outside, cache, env, variant, gasDir, chatCalls, updateCalls>>

\* the remote call rejects: updateScriptContent returns {error: message} and
\* the handler throws it
SetupUpdateRejects(r) ==
  /\ req[r].route = "setup"
  /\ req[r].pc = "UPLOADING"
  /\ \E message \in UpstreamMessages :
       SetupFails(r, message, [req[r] EXCEPT !.uploadResponse = ErrorBody(message)])
  /\ UNCHANGED <<outside, cache, env, variant, gasDir, chatCalls, updateCalls>>

NextSetup ==
  \E r \in Reqs :
    \/ SetupTemplateUnreadable(r)
    \/ SetupReadsTemplate(r)
    \/ SetupRejectsQuery(r)
    \/ SetupThrows(r)
    \/ SetupAssemblyFails(r)
    \/ SetupStartsUpload(r)
    \/ SetupUpdateResolves(r)
    \/ SetupUpdateRejects(r)

SpecSetup == InitSetup /\ [][NextSetup]_vars

\* ------------------------------------------------------------------------
\* The router: /health, the CORS middleware, the other routes
\* ------------------------------------------------------------------------
\* pattern.replace(/\*/g, '.*'): every "*" becomes ".*"
RECURSIVE ReplaceStars(_)
ReplaceStars(s) ==
  IF s = <<>> THEN <<>>
  ELSE (IF Head(s) = "*" THEN <<".", "*">> ELSE <<Head(s)>>) \o ReplaceStars(Tail(s))

\* the source of the regular expression built from config.cors.origin
OriginPattern(configOrigin) ==
  ReplaceStars(Replace(configOrigin, <<"*", ".">>, <<".", "*", Backslash, ".">>))

\* new RegExp(p): the atoms of the expression from position i on. "." is any
\* character, a backslash makes the next character literal, a "*" repeats
\* the atom before it.
RECURSIVE RegExpAtoms(_, _)
RegExpAtoms(p, i) ==
  IF i > Len(p) THEN <<>>
  ELSE LET escaped == p[i] = Backslash /\ i < Len(p)
           width == IF escaped THEN 2 ELSE 1
           star == i + width <= Len(p) /\ p[i + width] = "*"
       IN << [any |-> ~escaped /\ p[i] = ".",
              ch |-> IF escaped THEN p[i + 1] ELSE p[i],
              star |-> star] >>
            \o RegExpAtoms(p, i + width + (IF star THEN 1 ELSE 0))

\* the atoms from a on match s from position i on
RECURSIVE MatchAt(_, _, _, _)
MatchAt(atoms, a, s, i) ==
  IF a > Len(atoms) THEN TRUE
  ELSE IF atoms[a].star
       THEN \E k \in 0..(Len(s) - i + 1) :
              /\ \A j \in i..(i + k - 1) : atoms[a].any \/ atoms[a].ch = s[j]
              /\ MatchAt(atoms, a + 1, s, i + k)
       ELSE /\ i <= Len(s)
            /\ atoms[a].any \/ atoms[a].ch = s[i]
            /\ MatchAt(atoms, a + 1, s, i + 1)

\* regex.test(s): the expression matches somewhere in s
RegExpTest(p, s) == \E i \in 1..(Len(s) + 1) : MatchAt(RegExpAtoms(p, 1), 1, s, i)

\* the origin checker calls back with true
OriginAllowed(origin, configOrigin) ==
  \/ ~Truthy(origin)
  \/ /\ Includes(configOrigin, <<"*">>)
     /\ RegExpTest(OriginPattern(configOrigin), origin.v)
  \/ configOrigin = <<"*">>
  \/ origin.v = configOrigin

NotAllowedMessage == <<"Not allowed by CORS">>

\* the process environments of the model
Envs ==
  {Env(b, o) : b \in {Undefined, Str(<<>>), Str(<<"20250101">>)},
               o \in {Undefined, Str(<<"*">>),
                      Str(<<"https://", "app", ".", "example", ".", "com">>)}}

\* the Origin headers of the model; Undefined when the header is absent
Origins ==
  {Undefined,
   Str(<<"https://", "a", ".", "googleusercontent", ".", "com">>),
   Str(<<"https://", "googleusercontent", ".", "com">>),
   Str(<<"https://", "a", ".", "googleusercontent", "x", "com">>),
   Str(<<"https://", "a", ".", "googleusercontent", ".", "com", ".", "evil", ".", "com">>),
   Str(<<"https://", "evil", ".", "com">>),
   Str(<<"https://", "app", ".", "example", ".", "com">>)}

Methods == {"GET", "POST"}
Paths == {"/health", "/prompt", "/setup"}

\* a request as it reaches the router
RouterRequest(method, path, origin, authorization) ==
  [route |-> "", pc |-> "ARRIVED", body |-> Undefined, authorization |-> authorization,
   args |-> <<>>, token |-> Undefined, response |-> Undefined,
   receivedInstruction |-> Undefined, receivedCode |-> Undefined,
   uploadResponse |-> Undefined, thrown |-> Undefined,
   query |-> Undefined, jsContent |-> Undefined, type |-> "",
   method |-> method, path |-> path, origin |-> origin, passed |-> <<>>, sent |-> <<>>]

InitRouter ==
  /\ NothingOutside
  /\ cache = {}
  /\ env \in Envs
  /\ variant \in Variants
  /\ gasDir \in TemplateDirs(0)
  /\ req \in [Reqs -> {RouterRequest(m, p, o, a) :
                         m \in Methods, p \in Paths, o \in Origins,
                         a \in {Undefined, Str(<<"Bearer", " ", "t1">>)}}]
  /\ chatCalls = <<>>
  /\ updateCalls = <<>>

\* a route table without the /health route
MatchesNothing(method, path) == FALSE

\* router.get('/health', ...), registered before the CORS middleware
MatchesHealth(method, path) == method = "GET" /\ path = "/health"

\* the routes registered after the CORS middleware
RouteOf(method, path) ==
  IF method = "POST" /\ path = "/prompt" THEN "prompt"
  ELSE IF method = "GET" /\ path = "/setup" THEN "setup"
  ELSE "none"

HealthBody(environment) ==
  Obj(<< << <<"success">>, Bool(TRUE) >>,
         << <<"latest_build">>, OrElse(environment.LATEST_BUILD, Null) >> >>)

\* GET /health
Health(r) ==
  /\ req[r].pc = "ARRIVED"
  /\ MatchesHealth(req[r].method, req[r].path)
  /\ Send(r, 200, HealthBody(env), [req[r] EXCEPT !.route = "health"])
  /\ UNCHANGED <<outside, cache, env, variant, gasDir, chatCalls, updateCalls>>

\* the CORS middleware lets the request through to its route, if it has one
CorsAllows(r) ==
  /\ req[r].pc = "ARRIVED"
  /\ ~MatchesHealth(req[r].method, req[r].path)
  /\ OriginAllowed(req[r].origin, env.CORS_ORIGIN)
  /\ req' = [req EXCEPT ![r].passed = Append(@, "cors"),
                        ![r].route = RouteOf(req[r].method, req[r].path),
                        ![r].pc = IF RouteOf(req[r].method, req[r].path) = "none"
                                  THEN "UNHANDLED" ELSE "RECEIVED"]
  /\ UNCHANGED <<outside, cache, env, variant, gasDir, chatCalls, updateCalls>>

\* the origin checker calls back with an error: no route runs
CorsRejects(r) ==
  /\ req[r].pc = "ARRIVED"
  /\ ~MatchesHealth(req[r].method, req[r].path)
  /\ ~OriginAllowed(req[r].origin, env.CORS_ORIGIN)
  /\ req' = [req EXCEPT ![r].passed = Append(@, "cors"),
                        ![r].thrown = Str(NotAllowedMessage),
                        ![r].pc = "FAILED"]
  /\ UNCHANGED <<outside, cache, env, variant, gasDir, chatCalls, updateCalls>>

NextRouter ==
  \E r \in Reqs :
    \/ Health(r)
    \/ CorsAllows(r)
    \/ CorsRejects(r)

SpecRouter == InitRouter /\ [][NextRouter]_vars

\* ------------------------------------------------------------------------
\* Two POST /prompt requests in flight
\* ------------------------------------------------------------------------
PairReqs == {1, 2}

\* what request n sends when it is well formed
PairInstruction(n) == IF n = 1 THEN Str(<<"sum column A">>) ELSE Str(<<"clear the sheet">>)
PairScriptId(n) == IF n = 1 THEN Str(<<"S1">>) ELSE Str(<<"S2">>)
PairTimezone(n) == IF n = 1 THEN Str(<<"Z">>) ELSE Str(<<"Z", Quote>>)
PairAuthorization(n) == IF n = 1 THEN Str(<<"Bearer", " ", "t1">>) ELSE Str(<<"Bearer", " ", "t2">>)

WellFormed(n) ==
  PromptRequest(Body(PairInstruction(n), PairScriptId(n), PairTimezone(n)), PairAuthorization(n))

\* the requests n can be: the first is well formed, the second may lack its
\* timezone or its Authorization header
PairRequests(n) ==
  IF n = 1 THEN {WellFormed(1)}
  ELSE { WellFormed(n),
         PromptRequest(Body(PairInstruction(n), PairScriptId(n), Undefined), PairAuthorization(n)),
         PromptRequest(Body(PairInstruction(n), PairScriptId(n), PairTimezone(n)), Undefined) }

\* the deployments: the addon copy over a template directory that holds the
\* manifest, the dynamic copy over a directory that cannot be read
PairDeployments == {<<"addon", Dir(<<>>, <<EntryPool[4]>>)>>, <<"dynamic", UnreadableDir>>}

InitPair ==
  /\ NothingOutside
  /\ cache = {}
  /\ env = DefaultEnv
  /\ \E d \in PairDeployments : variant = d[1] /\ gasDir = d[2]
  /\ req \in {f \in [PairReqs -> PairRequests(1) \cup PairRequests(2)] :
                \A n \in PairReqs : f[n] \in PairRequests(n)}
  /\ chatCalls = <<>>
  /\ updateCalls = <<>>

\* the handlers of the two requests run interleaved at their awaits
NextPair ==
  \E r \in PairReqs :
    \/ RejectBadRequest(r)
    \/ RejectUnauthorized(r)
    \/ InstructionFileUnreadable(r)
    \/ StartChat(r)
    \/ ChatFails(r)
    \/ ReplyWithoutContent(r)
    \/ DecodeFails(r)
    \/ AssemblyFails(r)
    \/ StartUpload(r)
    \/ UpdateResolves(r)
    \/ UpdateRejects(r)

SpecPair == InitPair /\ [][NextPair]_vars

\* ------------------------------------------------------------------------
\* LLMClient.getAppsScriptCode called on its own
\* ------------------------------------------------------------------------
\* x[0]: the first element of an array, the first character of a string, the
\* member "0" of an object
First(x) ==
  CASE x.t = "array" -> IF x.v = <<>> THEN Undefined ELSE x.v[1]
    [] x.t = "string" -> IF x.v = <<>> THEN Undefined ELSE Str(<<x.v[1]>>)
    [] OTHER -> GetProp(x, <<"0">>)

TypeErrorMessage == <<"Cannot read properties of undefined">>

\* response.choices[0].message.content: the value read, or the TypeError of
\* reading a member of undefined or null
FirstContent(response) ==
  LET choices == GetProp(response, <<"choices">>)
      message == GetProp(First(choices), <<"message">>)
  IN IF /\ CanReadProp(response)
        /\ CanReadProp(choices)
        /\ CanReadProp(First(choices))
        /\ CanReadProp(message)
     THEN [threw |-> FALSE, value |-> GetProp(message, <<"content">>)]
     ELSE [threw |-> TRUE, value |-> Undefined]

\* a completion whose first choice carries the given message
Completion(message) ==
  Obj(<< << <<"choices">>, Arr(<< Obj(<< << <<"message">>, message >> >>) >>) >> >>)

Content(content) == Obj(<< << <<"content">>, content >> >>)

\* what the chat endpoint resolves with, when it resolves
Completions ==
  { Undefined,
    Obj(<<>>),
    Obj(<< << <<"choices">>, Null >> >>),
    Obj(<< << <<"choices">>, Arr(<<>>) >> >>),
    Obj(<< << <<"choices">>, Arr(<< Obj(<<>>) >>) >> >>),
    Obj(<< << <<"choices">>, Str(<<"a", "b">>) >> >>),
    Completion(Null),
    Completion(Obj(<<>>)),
    Completion(Content(Null)),
    Completion(Content(Str(<<>>))),
    Completion(Content(Str(<<"Sorry">>))),
    Completion(Content(Str(<<"{", Quote, "code", Quote, ":", Quote, "C", Quote, "}">>))) }

Prompts == {<<>>, <<"sum column A">>, <<"say ", Fence, "hi", Fence>>}

\* a call getAppsScriptCode(prompt); completion is what the endpoint will
\* resolve with if it is called and does not reject
LlmRequest(prompt, completion) ==
  [route |-> "llm", pc |-> "CALLING", body |-> Undefined, authorization |-> Undefined,
   args |-> <<Str(prompt), completion>>, token |-> Undefined, response |-> Undefined,
   receivedInstruction |-> Undefined, receivedCode |-> Undefined,
   uploadResponse |-> Undefined, thrown |-> Undefined,
   query |-> Undefined, jsContent |-> Undefined, type |-> "",
   method |-> "", path |-> "", origin |-> Undefined, passed |-> <<>>, sent |-> <<>>]

InitLlm ==
  /\ NothingOutside
  /\ cache = {}
  /\ env = DefaultEnv
  /\ variant \in Variants
  /\ gasDir = UnreadableDir
  /\ req \in [Reqs -> {LlmRequest(p, c) : p \in Prompts, c \in Completions}]
  /\ chatCalls = <<>>
  /\ updateCalls = <<>>

\* the call returns result; error is what the catch block caught, if anything
LlmReturns(r, result, error) ==
  req' = [req EXCEPT ![r].pc = "RETURNED", ![r].response = result, ![r].thrown = error]

\* the instruction file cannot be read
LlmFileUnreadable(r) ==
  /\ req[r].route = "llm"
  /\ req[r].pc = "CALLING"
  /\ LlmReturns(r, Null, Str(ENOENT))
  /\ UNCHANGED <<outside, cache, env, variant, gasDir, chatCalls, updateCalls>>

\* the instruction file is read and the chat call is made
LlmCallsChat(r) ==
  /\ req[r].route = "llm"
  /\ req[r].pc = "CALLING"
  /\ req' = [req EXCEPT ![r].pc = "WAITING"]
  /\ chatCalls' = Append(chatCalls, [req |-> r, user |-> UserContent(req[r].args[1].v)])
  /\ UNCHANGED <<outside, cache, env, variant, gasDir, updateCalls>>

\* the chat call rejects
LlmChatRejects(r) ==
  /\ req[r].route = "llm"
  /\ req[r].pc = "WAITING"
  /\ \E message \in UpstreamMessages : LlmReturns(r, Null, Str(message))
  /\ UNCHANGED <<outside, cache, env, variant, gasDir, chatCalls, updateCalls>>

\* the chat call resolves and the content of the first choice is read
LlmChatResolves(r) ==
  /\ req[r].route = "llm"
  /\ req[r].pc = "WAITING"
  /\ IF FirstContent(req[r].args[2]).threw
     THEN LlmReturns(r, Null, Str(TypeErrorMessage))
     ELSE LlmReturns(r, FirstContent(req[r].args[2]).value, Undefined)
  /\ UNCHANGED <<outside, cache, env, variant, gasDir, chatCalls, updateCalls>>

NextLlm ==
  \E r \in Reqs :
    \/ LlmFileUnreadable(r)
    \/ LlmCallsChat(r)
    \/ LlmChatRejects(r)
    \/ LlmChatResolves(r)

SpecLlm == InitLlm /\ [][NextLlm]_vars

\* ------------------------------------------------------------------------
\* The legacy OpenAI service: generateResponse
\* ------------------------------------------------------------------------
\* The repository holds two copies of the service: "cached" looks the request
\* up in the response cache first, "plain" always calls OpenAI.
LegacyVariants == {"cached", "plain"}

\* `openai_${prompt}_${JSON.stringify(options)}`
generateCacheKey(prompt, options) ==
  <<"openai_">> \o prompt \o <<"_">> \o Stringify(options)

\* CacheService.get: the value stored under key if it is truthy, null otherwise
CacheGet(entries, key) ==
  IF \E e \in entries : e.key = key /\ Truthy(e.value)
  THEN (CHOOSE e \in entries : e.key = key).value
  ELSE Null

\* CacheService.set
CacheSet(entries, key, value) ==
  {e \in entries : e.key # key} \cup {[key |-> key, value |-> value]}

\* the parameter defaults: options = {}, useCache = true
OptionsParam(args) == IF args[2] = Undefined THEN Obj(<<>>) ELSE args[2]
UseCacheParam(args) == IF args[3] = Undefined THEN Bool(TRUE) ELSE args[3]

\* {text, usage} as generateResponse builds it
LegacyResult(text, usage) ==
  Obj(<< << <<"text">>, text >>, << <<"usage">>, usage >> >>)

\* the response of createChatCompletion with the given data
ApiResponse(data) == Obj(<< << <<"data">>, data >> >>)

Usage == Obj(<< << <<"total_tokens">>, Num(5) >> >>)

\* a rejection of createChatCompletion with an error of the given message
Rejection(message) == [t |-> "rejection", v |-> message]

\* what createChatCompletion settles with
ApiOutcomes ==
  {Rejection(m) : m \in UpstreamMessages \cup {<<"API rate limit exceeded">>}}
    \cup { ApiResponse(SetProp(Completion(Content(Str(<<"Test response">>))), <<"usage">>, Usage)),
           ApiResponse(Completion(Content(Str(<<>>)))),
           ApiResponse(Obj(<< << <<"choices">>, Arr(<<>>) >> >>)) }

LegacyPrompts == {<<"Test prompt">>, <<"sum column A">>}
LegacyOptions == {Undefined, Obj(<< << <<"model">>, Str(<<"gpt-4">>) >> >>)}
UseCacheArgs == {Undefined, Bool(TRUE), Bool(FALSE)}

\* a call generateResponse(prompt, options, useCache); outcome is what
\* createChatCompletion settles with if it is called
LegacyRequest(prompt, options, useCache, outcome) ==
  [route |-> "legacy", pc |-> "CALLING", body |-> Undefined, authorization |-> Undefined,
   args |-> <<Str(prompt), options, useCache, outcome>>, token |-> Undefined,
   response |-> Undefined,
   receivedInstruction |-> Undefined, receivedCode |-> Undefined,
   uploadResponse |-> Undefined, thrown |-> Undefined,
   query |-> Undefined, jsContent |-> Undefined, type |-> "",
   method |-> "", path |-> "", origin |-> Undefined, passed |-> <<>>, sent |-> <<>>]

\* the caches of the model: empty, or holding the result of one earlier call
Caches ==
  {{}} \cup
  {{[key |-> generateCacheKey(p, Obj(<<>>)), value |-> LegacyResult(Str(<<"Earlier response">>), Usage)]} :
     p \in LegacyPrompts}

InitLegacy ==
  /\ NothingOutside
  /\ cache \in Caches
  /\ env = DefaultEnv
  /\ variant \in LegacyVariants
  /\ gasDir = UnreadableDir
  /\ req \in [Reqs -> {LegacyRequest(p, o, u, out) :
                         p \in LegacyPrompts, o \in LegacyOptions,
                         u \in UseCacheArgs, out \in ApiOutcomes}]
  /\ chatCalls = <<>>
  /\ updateCalls = <<>>

CacheKeyOf(r) == generateCacheKey(req[r].args[1].v, OptionsParam(req[r].args))

\* the cached copy finds the response in the cache
CacheHit(r) ==
  /\ variant = "cached"
  /\ Truthy(UseCacheParam(req[r].args))
  /\ Truthy(CacheGet(cache, CacheKeyOf(r)))

\* the cached response is returned without a call
LegacyReturnsCached(r) ==
  /\ req[r].route = "legacy"
  /\ req[r].pc = "CALLING"
  /\ CacheHit(r)
  /\ req' = [req EXCEPT ![r].pc = "RETURNED", ![r].response = CacheGet(cache, CacheKeyOf(r))]
  /\ UNCHANGED <<outside, cache, env, variant, gasDir, chatCalls, updateCalls>>

\* createChatCompletion is called with the prompt as the user message
LegacyCallsOpenAI(r) ==
  /\ req[r].route = "legacy"
  /\ req[r].pc = "CALLING"
  /\ ~CacheHit(r)
  /\ req' = [req EXCEPT ![r].pc = "WAITING"]
  /\ chatCalls' = Append(chatCalls, [req |-> r, user |-> req[r].args[1].v])
  /\ UNCHANGED <<outside, cache, env, variant, gasDir, updateCalls>>

\* the error caught is thrown again as Error('OpenAI API error: ' + message)
LegacyThrows(r, message) ==
  req' = [req EXCEPT ![r].pc = "THREW",
                     ![r].thrown = Str(<<"OpenAI API error: ">> \o message)]

\* the rejection swallowed: null is returned
LegacyRejectsQuietly(r) ==
  /\ req[r].route = "legacy"
  /\ req[r].pc = "WAITING"
  /\ req[r].args[4].t = "rejection"
  /\ req' = [req EXCEPT ![r].pc = "RETURNED", ![r].response = Null]
  /\ UNCHANGED <<outside, cache, env, variant, gasDir, chatCalls, updateCalls>>

\* createChatCompletion rejects
LegacyRejects(r) ==
  /\ req[r].route = "legacy"
  /\ req[r].pc = "WAITING"
  /\ req[r].args[4].t = "rejection"
  /\ LegacyThrows(r, req[r].args[4].v)
  /\ UNCHANGED <<outside, cache, env, variant, gasDir, chatCalls, updateCalls>>

\* createChatCompletion resolves with a response that has no first message
LegacyResponseMalformed(r) ==
  /\ req[r].route = "legacy"
  /\ req[r].pc = "WAITING"
  /\ req[r].args[4].t # "rejection"
  /\ FirstContent(GetProp(req[r].args[4], <<"data">>)).threw
  /\ LegacyThrows(r, TypeErrorMessage)
  /\ UNCHANGED <<outside, cache, env, variant, gasDir, chatCalls, updateCalls>>

\* createChatCompletion resolves: the result is built, cached by the cached
\* copy when useCache is set, and returned
LegacyResolves(r) ==
  /\ req[r].route = "legacy"
  /\ req[r].pc = "WAITING"
  /\ req[r].args[4].t # "rejection"
  /\ ~FirstContent(GetProp(req[r].args[4], <<"data">>)).threw
  /\ LET result == LegacyResult(FirstContent(GetProp(req[r].args[4], <<"data">>)).value,
                                GetProp(GetProp(req[r].args[4], <<"data">>), <<"usage">>))
     IN /\ req' = [req EXCEPT ![r].pc = "RETURNED", ![r].response = result]
        /\ cache' = IF variant = "cached" /\ Truthy(UseCacheParam(req[r].args))
                    THEN CacheSet(cache, CacheKeyOf(r), result)
                    ELSE cache
  /\ UNCHANGED <<outside, env, variant, gasDir, chatCalls, updateCalls>>

NextLegacy ==
  \E r \in Reqs :
    \/ LegacyReturnsCached(r)
    \/ LegacyCallsOpenAI(r)
    \/ LegacyRejects(r)
    \/ LegacyResponseMalformed(r)
    \/ LegacyResolves(r)

SpecLegacy == InitLegacy /\ [][NextLegacy]_vars

\* ------------------------------------------------------------------------
\* Properties
\* ------------------------------------------------------------------------
ChatCallsBy(r) == Cardinality({i \in 1..Len(chatCalls) : chatCalls[i].req = r})
UpdateCallsBy(r) == Cardinality({i \in 1..Len(updateCalls) : updateCalls[i].req = r})

IsPrompt(r) == req[r].route = "prompt"
Closed(r) == req[r].pc = "CLOSED"

\* the only response of r has the given status and error text
SentError(r, status, message) == req[r].sent = <<Response(status, ErrorBody(message))>>

BodyFields == {<<"instruction">>, <<"scriptId">>, <<"timezone">>}

\* a body field is absent or the empty string
LacksField(body) == \E k \in BodyFields : GetProp(body, k) \in {Undefined, Str(<<>>)}

\* the Authorization header is absent, has no "Bearer " prefix, or is the
\* prefix alone
NoUsableBearer(header) ==
  \/ header = Undefined
  \/ ~StartsWith(header.v, <<"Bearer", " ">>)
  \/ header.v = <<"Bearer", " ">>

\* C1: a POST /prompt request whose body lacks instruction, scriptId or
\* timezone (absent or empty) is answered 400, and neither the chat endpoint
\* nor the remote content API is called for it, whatever its Authorization
\* header is.
C1_MissingFieldIs400 ==
  \A r \in Reqs :
    (IsPrompt(r) /\ LacksField(req[r].body)) =>
      /\ ChatCallsBy(r) = 0
      /\ UpdateCallsBy(r) = 0
      /\ req[r].pc \in {"RECEIVED", "CLOSED"}
      /\ Closed(r) => SentError(r, 400, MissingFieldsMessage)

\* a request with a good bearer token and no timezone has been answered
C1_Witness ==
  \E r \in Reqs :
    /\ Closed(r)
    /\ req[r].authorization = Str(<<"Bearer", " ", "t1">>)
    /\ req[r].body = Body(Str(<<"sum column A">>), Str(<<"S1">>), Undefined)

\* C2: a POST /prompt request with all three body fields and no usable bearer
\* token is answered 401, and neither collaborator is called for it.
C2_NoBearerIs401 ==
  \A r \in Reqs :
    (IsPrompt(r) /\ ~LacksField(req[r].body) /\ NoUsableBearer(req[r].authorization)) =>
      /\ ChatCallsBy(r) = 0
      /\ UpdateCallsBy(r) = 0
      /\ req[r].pc \in {"RECEIVED", "CLOSED"}
      /\ Closed(r) => SentError(r, 401, UnauthorizedMessage)

\* a complete request with a Basic credential has been answered
C2_Witness ==
  \E r \in Reqs :
    /\ Closed(r)
    /\ ~LacksField(req[r].body)
    /\ req[r].authorization = Str(<<"Basic", " ", "t1">>)

\* C3: when the chat-completion step yields null the request is answered 500
\* with the generic error body, and the remote content API is not called.
C3_ChatFailureIs500 ==
  \A r \in Reqs :
    (IsPrompt(r) /\ req[r].response = Null) =>
      /\ Closed(r)
      /\ SentError(r, 500, GenerateFailedMessage)
      /\ UpdateCallsBy(r) = 0

\* a chat call was made and yielded null
C3_Witness ==
  \E r \in Reqs : IsPrompt(r) /\ req[r].response = Null /\ ChatCallsBy(r) = 1

\* C4: when the chat reply is a text that JSON.parse rejects the request is
\* answered 500 with the decode-failure message, and the remote content API
\* is not called.
C4_UnparsableReplyIs500 ==
  \A r \in Reqs :
    (IsPrompt(r) /\ req[r].response.t = "string" /\ ~JSONParse(req[r].response.v).ok) =>
      /\ Closed(r)
      /\ SentError(r, 500, DecodeFailedMessage)
      /\ UpdateCallsBy(r) = 0

\* the chat reply was a truncated object
C4_Witness ==
  \E r \in Reqs :
    /\ Closed(r)
    /\ req[r].response = Str(<<"{", Quote, "code", Quote, ":", Quote, "C", Quote>>)

\* updateScriptContent failed for r: it returned {error} or threw
UploadFailed(r) ==
  \/ req[r].thrown # Undefined
  \/ GetProp(req[r].uploadResponse, <<"error">>) # Undefined

\* the message it failed with
FailureMessage(r) ==
  IF req[r].thrown # Undefined THEN req[r].thrown.v
  ELSE GetProp(req[r].uploadResponse, <<"error">>).v

\* C5: when the content update fails the request is answered 500; the error
\* text is the reinstall message if the upstream message contains
\* ACCESS_TOKEN_SCOPE_INSUFFICIENT and the upstream message itself otherwise,
\* and it is never the decode-failure message.
C5_UploadFailureMessage ==
  \A r \in Reqs :
    (IsPrompt(r) /\ UploadFailed(r)) =>
      /\ Closed(r)
      /\ SentError(r, 500,
                   IF Includes(FailureMessage(r), <<"ACCESS_TOKEN_SCOPE_INSUFFICIENT">>)
                   THEN ReinstallMessage ELSE FailureMessage(r))
      /\ ~SentError(r, 500, DecodeFailedMessage)

\* the remote call was rejected with a message that carries the scope marker
\* among other text
C5_Witness ==
  \E r \in Reqs :
    /\ IsPrompt(r)
    /\ UpdateCallsBy(r) = 1
    /\ Len(FailureMessage(r)) > 1
    /\ Includes(FailureMessage(r), <<"ACCESS_TOKEN_SCOPE_INSUFFICIENT">>)

Answered200(r) == \E i \in 1..Len(req[r].sent) : req[r].sent[i].status = 200

\* the explanation member of the reply r decoded
ReplyExplanation(r) == GetProp(JSONParse(req[r].response.v).val, <<"explanation">>)

\* the content update of r was made and returned without an error
UploadSucceeded(r) ==
  /\ UpdateCallsBy(r) = 1
  /\ req[r].uploadResponse # Undefined
  /\ ~UploadFailed(r)

\* C6 as stated: a 200 is sent only after the content update returned without
\* an error, and its received_instruction is the explanation of the reply.
C6_Original ==
  \A r \in Reqs :
    (IsPrompt(r) /\ Answered200(r)) =>
      /\ UploadSucceeded(r)
      /\ req[r].sent = <<Response(200, SuccessBody(ReplyExplanation(r)))>>

\* C6 amended: a 200 is sent only after the content update returned without
\* an error; its received_instruction is the explanation of the reply, or
\* 'No explanation provided' when the reply has no non-empty explanation.
C6_Amended ==
  \A r \in Reqs :
    (IsPrompt(r) /\ Answered200(r)) =>
      /\ UploadSucceeded(r)
      /\ req[r].sent =
           <<Response(200, SuccessBody(IF Truthy(ReplyExplanation(r))
                                       THEN ReplyExplanation(r)
                                       ELSE Str(NoExplanation)))>>

\* a 200 was sent for a reply that carries an explanation
C6_Witness ==
  \E r \in Reqs :
    /\ IsPrompt(r)
    /\ Answered200(r)
    /\ ReplyExplanation(r) = Str(<<"E">>)

\* the reply of r is JSON, but not an object with a code member
SchemaIncomplete(r) ==
  /\ req[r].response.t = "string"
  /\ JSONParse(req[r].response.v).ok
  /\ \/ JSONParse(req[r].response.v).val.t # "object"
     \/ ~HasKey(JSONParse(req[r].response.v).val.v, <<"code">>)

\* C7: a reply that is JSON but not an object with a code member is handled
\* as a decode failure: 500 with the decode-failure message, no upload.
C7_SchemaIncompleteIsDecodeFailure ==
  \A r \in Reqs :
    (IsPrompt(r) /\ SchemaIncomplete(r)) =>
      /\ Closed(r)
      /\ SentError(r, 500, DecodeFailedMessage)
      /\ UpdateCallsBy(r) = 0

\* C8: a request makes at most one chat call and at most one content-update
\* call, and the content-update call is made only once the chat call of the
\* request has returned a text and the text has been parsed.
C8_AtMostOneCallEach ==
  \A r \in Reqs :
    IsPrompt(r) =>
      /\ ChatCallsBy(r) <= 1
      /\ UpdateCallsBy(r) <= 1
      /\ Len(req[r].sent) <= 1
      /\ UpdateCallsBy(r) = 1 =>
           /\ ChatCallsBy(r) = 1
           /\ req[r].response.t = "string"
           /\ JSONParse(req[r].response.v).ok
           /\ req[r].pc \in {"UPLOADING", "CLOSED"}

\* a request whose chat call and content update both happened, the latter
\* failing, has been answered
C8_Witness ==
  \E r \in Reqs :
    /\ IsPrompt(r)
    /\ Closed(r)
    /\ ChatCallsBy(r) = 1
    /\ UpdateCallsBy(r) = 1
    /\ UploadFailed(r)

\* ------------------------------------------------------------------------
\* Properties of updateScriptContent
\* ------------------------------------------------------------------------
IsCall(r) == req[r].route = "direct"

NonEmptyString(x) == x.t = "string" /\ x.v # <<>>

RECURSIVE AllReadable(_, _)
AllReadable(entries, i) ==
  \/ i > Len(entries)
  \/ /\ entries[i].readable
     /\ AllReadable(entries[i].entries, 1)
     /\ AllReadable(entries, i + 1)

\* everything updateScriptContent reads is there and can be read
CanAssemble ==
  /\ gasDir.readable
  /\ AllReadable(gasDir.entries, 1)
  /\ variant = "addon" =>
       \E i \in 1..Len(gasDir.entries) : gasDir.entries[i].name = <<"appsscript", ".", "json">>

\* the files list starts with the code C and a manifest carrying timezone T
FirstEntries(files, C, T) ==
  /\ Len(files) >= 2
  /\ files[1] = FileEntry(<<"generated">>, "SERVER_JS", C)
  /\ files[2].name = <<"appsscript">>
  /\ files[2].type = "JSON"
  /\ files[2].source.t = "string"
  /\ JSONParse(files[2].source.v).ok
  /\ JSONParse(files[2].source.v).val.t = "object"
  /\ GetProp(JSONParse(files[2].source.v).val, <<"timeZone">>) = T

\* r made exactly one remote call, and it carried C and T
OneCallWith(r, C, T) ==
  /\ UpdateCallsBy(r) = 1
  /\ \A i \in 1..Len(updateCalls) :
       updateCalls[i].req = r => FirstEntries(updateCalls[i].files, C, T)

\* C9 as stated: for non-empty C and T, updateScriptContent(scriptId, C, T)
\* invokes the remote updateContent once, with a files list that starts with
\* the generated entry holding C and the appsscript entry whose timeZone is T.
C9_Original ==
  \A r \in Reqs :
    (/\ IsCall(r)
     /\ req[r].pc \in {"RETURNED", "THREW"}
     /\ NonEmptyString(req[r].args[2])
     /\ NonEmptyString(req[r].args[3])) =>
      OneCallWith(r, req[r].args[2], req[r].args[3])

\* C9 amended: for non-empty C and T, when everything the file list is
\* assembled from can be read, updateScriptContent(scriptId, C, T) invokes the
\* remote updateContent once, with a files list that starts with the
\* generated entry holding C and the appsscript entry whose timeZone is T;
\* otherwise it does not invoke it.
C9_Amended ==
  \A r \in Reqs :
    (/\ IsCall(r)
     /\ req[r].pc # "CALLING"
     /\ NonEmptyString(req[r].args[2])
     /\ NonEmptyString(req[r].args[3])) =>
      IF CanAssemble
      THEN OneCallWith(r, req[r].args[2], req[r].args[3])
      ELSE UpdateCallsBy(r) = 0

\* a call with a code and a timezone that need escaping has returned after
\* its remote call
C9_Witness ==
  \E r \in Reqs :
    /\ IsCall(r)
    /\ req[r].pc = "RETURNED"
    /\ req[r].args[2] = Str(<<"D", Quote>>)
    /\ req[r].args[3] = Str(<<Quote, Backslash>>)
    /\ UpdateCallsBy(r) = 1

\* C10: no files list sent to the remote updateContent holds two entries of
\* the same name, whatever the template directory contains.
C10_NamesUnique ==
  \A i \in 1..Len(updateCalls) :
    \A j, k \in 1..Len(updateCalls[i].files) :
      j # k => updateCalls[i].files[j].name # updateCalls[i].files[k].name


\* ------------------------------------------------------------------------
\* Properties of GET /setup
\* ------------------------------------------------------------------------
IsSetup(r) == req[r].route = "setup"

\* the handler got the text of the template file
TemplateWasRead(r) == req[r].jsContent # Undefined

\* the setup step of r failed: a parameter is missing, or the content update
\* threw or returned an error
SetupStepFailed(r) ==
  \/ GetProp(req[r].query, <<"authToken">>) \in {Undefined, Str(<<>>)}
  \/ GetProp(req[r].query, <<"scriptId">>) \in {Undefined, Str(<<>>)}
  \/ UploadFailed(r)

\* the template with a message between the quotes of the placeholder
TemplateWith(message) ==
  TemplateHead \o <<"failureMessage", " = ", "'">> \o message \o <<"'">> \o TemplateTail

\* text is the template with some non-empty message in the placeholder
CarriesMessage(text) ==
  /\ Len(text) > Len(Template) - 1
  /\ text = TemplateWith(SubSeq(text, Len(TemplateHead) + 4, Len(text) - Len(TemplateTail) - 1))

\* the script sent to the caller of r
ScriptSent(r) == req[r].sent[1].json.v

UploadRejectedWith(r, word) ==
  /\ UpdateCallsBy(r) = 1
  /\ UploadFailed(r)
  /\ Includes(FailureMessage(r), <<word>>)

\* C12: when the content update of a GET /setup is rejected with a message
\* holding SERVICE_DISABLED, the response is 200 and its body is the template
\* with the enable-the-API guidance in the placeholder, without the upstream
\* text.
C12_ServiceDisabledGuidance ==
  \A r \in Reqs :
    (IsSetup(r) /\ Closed(r) /\ UploadRejectedWith(r, "SERVICE_DISABLED")) =>
      /\ req[r].sent = <<Response(200, Str(TemplateWith(EnableApiMessage)))>>
      /\ ~Includes(ScriptSent(r), FailureMessage(r))

C12_Witness ==
  \E r \in Reqs :
    /\ IsSetup(r)
    /\ Closed(r)
    /\ UploadRejectedWith(r, "SERVICE_DISABLED")
    /\ Includes(ScriptSent(r), EnableApiMessage)

\* C13: when the content update of a GET /setup is rejected with a message
\* holding ACCESS_TOKEN_SCOPE_INSUFFICIENT, the script served carries the
\* reinstall message of POST /prompt in the placeholder.
C13_ScopeErrorGetsReinstallMessage ==
  \A r \in Reqs :
    (IsSetup(r) /\ Closed(r) /\ UploadRejectedWith(r, "ACCESS_TOKEN_SCOPE_INSUFFICIENT")) =>
      req[r].sent = <<Response(200, Str(TemplateWith(ReinstallMessage)))>>

\* C14: a GET /setup with authToken and scriptId whose content update
\* succeeded is answered with the template as it was read, and the body
\* differs from the template exactly when the setup step failed.
C14_BodyModifiedIffSetupFailed ==
  \A r \in Reqs :
    (IsSetup(r) /\ Closed(r) /\ TemplateWasRead(r)) =>
      /\ UploadSucceeded(r) => ScriptSent(r) = Template
      /\ (ScriptSent(r) # Template) <=> SetupStepFailed(r)

C14_Witness ==
  \E r \in Reqs :
    /\ IsSetup(r)
    /\ Closed(r)
    /\ UploadSucceeded(r)
    /\ ScriptSent(r) = Template


\* C15: the placeholder snippet is uploaded by GET /setup only: the generated
\* entry of every content update made for a POST /prompt request holds the
\* code member of the reply decoded for that request, never the placeholder.
C15_PromptUploadsModelCode ==
  \A i \in 1..Len(updateCalls) :
    IsPrompt(updateCalls[i].req) =>
      /\ updateCalls[i].files[1].name = <<"generated">>
      /\ updateCalls[i].files[1].source =
           GetProp(JSONParse(req[updateCalls[i].req].response.v).val, <<"code">>)
      /\ ~IsDefaultScript(updateCalls[i].files[1].source)


\* ------------------------------------------------------------------------
\* Properties of the router
\* ------------------------------------------------------------------------
IsHealth(r) == req[r].method = "GET" /\ req[r].path = "/health"

\* LATEST_BUILD when it is set to a non-empty text, null otherwise
BuildOrNull ==
  IF env.LATEST_BUILD \in {Undefined, Str(<<>>)} THEN Null ELSE env.LATEST_BUILD

\* C16: a GET /health that has been handled was answered once, with 200 and
\* {success: true, latest_build: LATEST_BUILD or null}, whatever its
\* Authorization and Origin headers; it did not pass through the CORS
\* middleware and no chat or content-update call was made.
C16_HealthAlways200 ==
  \A r \in Reqs :
    (IsHealth(r) /\ req[r].pc # "ARRIVED") =>
      /\ req[r].sent = <<Response(200, Obj(<< << <<"success">>, Bool(TRUE) >>,
                                              << <<"latest_build">>, BuildOrNull >> >>))>>
      /\ req[r].passed = <<>>
      /\ chatCalls = <<>>
      /\ updateCalls = <<>>

\* a health check without Authorization, from an origin the checker rejects
C16_Witness ==
  \E r \in Reqs :
    /\ IsHealth(r)
    /\ Closed(r)
    /\ req[r].authorization = Undefined
    /\ req[r].origin = Str(<<"https://", "evil", ".", "com">>)
    /\ env.CORS_ORIGIN = <<"https://", "*", ".", "googleusercontent", ".", "com">>
    /\ env.LATEST_BUILD = Str(<<>>)


\* ------------------------------------------------------------------------
\* Properties of two requests in flight
\* ------------------------------------------------------------------------
\* the token of the Authorization header that request r came with
OwnToken(r) == Str(SubSeq(req[r].authorization.v, 3, 3))

\* the code member of the reply that request r decoded
OwnCode(r) == GetProp(JSONParse(req[r].response.v).val, <<"code">>)

\* the files carry the code of r's own reply, or the placeholder when that
\* reply has none, and a manifest with r's own timezone
OwnFiles(r, files) ==
  LET code == OwnCode(r)
      manifest == JSONParse(files[2].source.v)
  IN /\ Len(files) >= 2
     /\ files[1].name = <<"generated">>
     /\ files[1].type = "SERVER_JS"
     /\ IF NonEmptyString(code)
        THEN files[1].source = code
        ELSE IsDefaultScript(files[1].source)
     /\ files[2].name = <<"appsscript">>
     /\ manifest.ok
     /\ GetProp(manifest.val, <<"timeZone">>) = GetProp(req[r].body, <<"timezone">>)

\* the 200 of r carries the explanation of r's own reply, or the fixed text
\* when that reply has none
OwnExplanation(r) ==
  LET explanation == ReplyExplanation(r)
      sent == GetProp(req[r].sent[1].json, <<"received_instruction">>)
  IN /\ Len(req[r].sent) = 1
     /\ IF NonEmptyString(explanation)
        THEN sent = explanation
        ELSE sent = Str(NoExplanation)

\* C17: with two POST /prompt requests in flight, every chat call carries the
\* instruction of the request it was made for, every content update carries
\* that request's bearer token, scriptId, timezone and the code of that
\* request's reply, and a 200 carries the explanation of that request's reply.
C17_RequestsAreIsolated ==
  \A r \in PairReqs :
    /\ \A i \in 1..Len(chatCalls) :
         chatCalls[i].req = r =>
           chatCalls[i].user = UserContent(GetProp(req[r].body, <<"instruction">>).v)
    /\ \A i \in 1..Len(updateCalls) :
         updateCalls[i].req = r =>
           /\ updateCalls[i].token = OwnToken(r)
           /\ updateCalls[i].scriptId = GetProp(req[r].body, <<"scriptId">>)
           /\ OwnFiles(r, updateCalls[i].files)
    /\ Answered200(r) => OwnExplanation(r)

\* both requests were answered 200, the second one's upload was made first,
\* and their replies differ
C17_Witness ==
  /\ \A r \in PairReqs : Answered200(r) /\ UpdateCallsBy(r) = 1
  /\ Len(updateCalls) = 2
  /\ updateCalls[1].req = 2
  /\ chatCalls[1].req = 1
  /\ req[1].response # req[2].response
  /\ NonEmptyString(ReplyExplanation(1))


\* ------------------------------------------------------------------------
\* Properties of getAppsScriptCode
\* ------------------------------------------------------------------------
IsLlm(r) == req[r].route = "llm"

\* the completion has a first choice whose message carries a text
CarriesText(completion) ==
  /\ completion.t = "object"
  /\ GetProp(completion, <<"choices">>).t = "array"
  /\ GetProp(completion, <<"choices">>).v # <<>>
  /\ GetProp(GetProp(GetProp(completion, <<"choices">>).v[1], <<"message">>), <<"content">>).t
       = "string"

\* what the chat call of r resolved with; Undefined when it did not resolve
Resolved(r) ==
  IF ChatCallsBy(r) = 1 /\ req[r].thrown \notin {Str(m) : m \in UpstreamMessages}
  THEN req[r].args[2] ELSE Undefined

\* C18: getAppsScriptCode always returns; it returns the text of the first
\* choice as it came when the chat call resolved with a completion that
\* carries one, and null in every other case (instruction file unreadable,
\* chat call rejected, completion of any other shape).
C18_NullOnAnyFailure ==
  \A r \in Reqs :
    (IsLlm(r) /\ req[r].pc \notin {"CALLING", "WAITING"}) =>
      /\ req[r].pc = "RETURNED"
      /\ IF CarriesText(Resolved(r))
         THEN req[r].response =
                GetProp(GetProp(GetProp(Resolved(r), <<"choices">>).v[1], <<"message">>),
                        <<"content">>)
         ELSE req[r].response = Null


\* ------------------------------------------------------------------------
\* Properties of the generated entry
\* ------------------------------------------------------------------------
\* the code argument is left out, null or the empty string
CodeAbsent(code) == code \in {Undefined, Null, Str(<<>>)}

\* C19: the generated entry of every files list updateScriptContent sends
\* holds the placeholder snippet when the code argument is left out, null or
\* empty, and the code argument itself otherwise.
C19_PlaceholderIffCodeAbsent ==
  \A i \in 1..Len(updateCalls) :
    IsCall(updateCalls[i].req) =>
      /\ updateCalls[i].files[1].name = <<"generated">>
      /\ updateCalls[i].files[1].type = "SERVER_JS"
      /\ IF CodeAbsent(req[updateCalls[i].req].args[2])
         THEN \E time \in Times :
                updateCalls[i].files[1].source = getDefaultDynamicScript(time)
         ELSE updateCalls[i].files[1].source = req[updateCalls[i].req].args[2]

\* a call with the empty string as code sent the placeholder
C19_Witness ==
  \E i \in 1..Len(updateCalls) :
    /\ IsCall(updateCalls[i].req)
    /\ req[updateCalls[i].req].args[2] = Str(<<>>)
    /\ IsDefaultScript(updateCalls[i].files[1].source)


\* ------------------------------------------------------------------------
\* Properties of the legacy OpenAI service
\* ------------------------------------------------------------------------
IsLegacy(r) == req[r].route = "legacy"

\* the OpenAI call of r was made and has settled
LegacyCallSettled(r) ==
  IsLegacy(r) /\ ChatCallsBy(r) = 1 /\ req[r].pc \notin {"CALLING", "WAITING"}

\* the first choice of the response data, when the response has one with a
\* message
FirstMessage(response) ==
  GetProp(GetProp(GetProp(response, <<"data">>), <<"choices">>).v[1], <<"message">>)

HasFirstMessage(response) ==
  /\ GetProp(GetProp(response, <<"data">>), <<"choices">>).t = "array"
  /\ GetProp(GetProp(response, <<"data">>), <<"choices">>).v # <<>>
  /\ FirstMessage(response).t = "object"

\* C20: when the OpenAI call of generateResponse rejects with message M the
\* call throws an Error with message 'OpenAI API error: ' followed by M and
\* returns no result; when it resolves with a response that has a first
\* message the call returns {text, usage} with that message's content and the
\* usage record of the response.
C20_RejectionIsRethrown ==
  \A r \in Reqs :
    LegacyCallSettled(r) =>
      IF req[r].args[4].t = "rejection"
      THEN /\ req[r].pc = "THREW"
           /\ req[r].thrown = Str(<<"OpenAI API error: ">> \o req[r].args[4].v)
           /\ req[r].response = Undefined
      ELSE HasFirstMessage(req[r].args[4]) =>
             /\ req[r].pc = "RETURNED"
             /\ req[r].response =
                  Obj(<< << <<"text">>, GetProp(FirstMessage(req[r].args[4]), <<"content">>) >>,
                         << <<"usage">>, GetProp(GetProp(req[r].args[4], <<"data">>), <<"usage">>) >> >>)

\* the cached copy, with a cache that holds another request's result, called
\* OpenAI and was rejected
C20_Witness ==
  \E r \in Reqs :
    /\ LegacyCallSettled(r)
    /\ variant = "cached"
    /\ cache # {}
    /\ req[r].args[4] = Rejection(<<"API rate limit exceeded">>)
    /\ req[r].pc = "THREW"

\* ------------------------------------------------------------------------
\* Termination of POST /prompt
\* ------------------------------------------------------------------------
\* the handler of r has ended and has written one response
AnsweredOnce(r) == Closed(r) /\ Len(req[r].sent) = 1

\* C24: every POST /prompt request, whatever its validation, chat and upload
\* outcomes, never writes a second response, has written its response exactly
\* when its handler has ended, and does end once every collaborator call has
\* returned or failed.
C24_OneTerminalStateOneResponse ==
  \A r \in Reqs :
    /\ [](Len(req[r].sent) <= 1 /\ (Closed(r) <=> Len(req[r].sent) = 1))
    /\ <>[]AnsweredOnce(r)

\* a request whose upload failed has ended with its one response, a 500
C24_Witness ==
  \E r \in Reqs :
    /\ IsPrompt(r)
    /\ AnsweredOnce(r)
    /\ UploadFailed(r)
    /\ req[r].sent[1].status = 500

\* ------------------------------------------------------------------------
\* Failures of updateScriptContent before the remote call
\* ------------------------------------------------------------------------
\* C25: when something the file list is assembled from cannot be read (the
\* manifest file, the template directory or a file in it), a call of
\* updateScriptContent ends by returning {error: message}, never by throwing,
\* and makes no remote updateContent call.
C25_AssemblyFailureIsReturned ==
  \A r \in Reqs :
    (IsCall(r) /\ req[r].pc # "CALLING" /\ ~CanAssemble) =>
      /\ req[r].pc = "RETURNED"
      /\ GetProp(req[r].uploadResponse, <<"error">>).t = "string"
      /\ UpdateCallsBy(r) = 0

\* ------------------------------------------------------------------------
\* Properties of the CORS origin checker
\* ------------------------------------------------------------------------
\* configOrigin is a wildcard domain pattern (scheme, "*", domain suffix) and
\* origin is a host under that domain: the scheme, a non-empty host part in
\* place of the "*", and then exactly the suffix
HostUnder(origin, configOrigin) ==
  \E i \in 1..Len(configOrigin) :
    /\ configOrigin[i] = "*"
    /\ Len(origin) > Len(configOrigin) - 1
    /\ StartsWith(origin, SubSeq(configOrigin, 1, i - 1))
    /\ EndsWith(origin, SubSeq(configOrigin, i + 1, Len(configOrigin)))

\* the origins the checker is meant to let through
OriginPermitted(origin, configOrigin) ==
  \/ origin = Undefined
  \/ configOrigin = <<"*">>
  \/ origin.v = configOrigin
  \/ HostUnder(origin.v, configOrigin)

\* the origin checker has decided on request r
CorsDecided(r) == req[r].passed = <<"cors">>

\* C30: the origin checker in front of /prompt and /setup lets a request
\* through exactly when it has no Origin, the configured origin is "*", the
\* Origin equals the configured origin, or the configured origin is a wildcard
\* domain pattern and the Origin is a host under that domain; every other
\* Origin fails with 'Not allowed by CORS'.
C30_AllowedExactlyWhenPermitted ==
  \A r \in Reqs :
    CorsDecided(r) =>
      IF OriginPermitted(req[r].origin, env.CORS_ORIGIN)
      THEN req[r].pc # "FAILED"
      ELSE req[r].pc = "FAILED" /\ req[r].thrown = Str(NotAllowedMessage)

\* ------------------------------------------------------------------------
\* The spreadsheet side of setup: gas/start.js and the script GET /setup serves
\* ------------------------------------------------------------------------
\* getProperty('setup_finished') is null until the property is set
NoProperties == [setup_finished |-> Null]
FinishedProperties == [setup_finished |-> Str(<<"true">>)]

\* the items onOpen puts into the menu
Menu(properties) ==
  IF Truthy(properties.setup_finished)
  THEN <<"Open Sidebar", "Test Connection">>
  ELSE <<"Setup">>

\* the spreadsheet before it is opened
ClosedUi == [menu |-> <<>>, sidebar |-> "none", toast |-> <<>>]

LoadedToast == <<"Latest codebase was successfully loaded from the server!">>

\* the position of the quote that ends the string literal starting at i; 0
\* when the literal is not terminated
RECURSIVE LiteralEnd(_, _)
LiteralEnd(text, i) ==
  IF i > Len(text) THEN 0
  ELSE IF text[i] = "'" THEN i
  ELSE LiteralEnd(text, i + 1)

\* what the browser makes of the script served: whether it parses, and the
\* value of its constant failureMessage
Evaluate(text) ==
  LET opening == TemplateHead \o <<"failureMessage", " = ", "'">>
      closing == LiteralEnd(text, Len(opening) + 1)
  IN IF /\ StartsWith(text, opening)
        /\ closing > 0
        /\ SubSeq(text, closing + 1, Len(text)) = TemplateTail
     THEN [parses |-> TRUE, failureMessage |-> SubSeq(text, Len(opening) + 1, closing - 1)]
     ELSE [parses |-> FALSE, failureMessage |-> <<>>]

\* the response to the script tag of the sidebar is a script
ScriptServed(r) ==
  /\ req[r].pc = "CLOSED"
  /\ req[r].sent[1].status = 200
  /\ req[r].type = "application/javascript"

InitInstall ==
  /\ aws = "none"
  /\ deployment = "none"
  /\ documentProperties \in {NoProperties, FinishedProperties}
  /\ ui = ClosedUi
  /\ cache = {}
  /\ env = DefaultEnv
  /\ variant \in Variants
  /\ gasDir \in TemplateDirs(MaxPromptDirEntries)
  /\ req \in [Reqs -> {[SetupRequest(q) EXCEPT !.pc = "IDLE"] : q \in Queries}]
  /\ chatCalls = <<>>
  /\ updateCalls = <<>>

\* onOpen(): the menu is built from the document property
OnOpen ==
  /\ ui' = [ui EXCEPT !.menu = Menu(documentProperties)]
  /\ UNCHANGED <<aws, deployment, documentProperties, cache, env, variant, gasDir, req,
                 chatCalls, updateCalls>>

\* setup(), the function behind 'Setup' and 'Test Connection': the sidebar
\* is shown with a script tag whose source is GET /setup
ClientSetup(r) ==
  /\ req[r].pc = "IDLE"
  /\ ui.menu # <<>>
  /\ ui' = [ui EXCEPT !.sidebar = "One second..."]
  /\ req' = [req EXCEPT ![r].pc = "RECEIVED"]
  /\ UNCHANGED <<aws, deployment, documentProperties, cache, env, variant, gasDir,
                 chatCalls, updateCalls>>

\* the script runs finishSetup() whatever its failureMessage is
ScriptAlwaysFinishesSetup(r) ==
  /\ ScriptServed(r)
  /\ Evaluate(ScriptSent(r)).parses
  /\ documentProperties' = [documentProperties EXCEPT !.setup_finished = Str(<<"true">>)]
  /\ ui' = [ui EXCEPT !.sidebar = "sidebar/content", !.toast = LoadedToast]
  /\ req' = [req EXCEPT ![r].pc = "LOADED"]
  /\ UNCHANGED <<aws, deployment, cache, env, variant, gasDir, chatCalls, updateCalls>>

\* the script runs with an empty failureMessage: google.script.run.finishSetup()
\* sets the property, opens the sidebar and shows the toast
ScriptFinishesSetup(r) ==
  /\ ScriptServed(r)
  /\ Evaluate(ScriptSent(r)).parses
  /\ Evaluate(ScriptSent(r)).failureMessage = <<>>
  /\ documentProperties' = [documentProperties EXCEPT !.setup_finished = Str(<<"true">>)]
  /\ ui' = [ui EXCEPT !.sidebar = "sidebar/content", !.toast = LoadedToast]
  /\ req' = [req EXCEPT ![r].pc = "LOADED"]
  /\ UNCHANGED <<aws, deployment, cache, env, variant, gasDir, chatCalls, updateCalls>>

\* the script runs with a failureMessage: the sidebar shows the alert
ScriptShowsFailure(r) ==
  /\ ScriptServed(r)
  /\ Evaluate(ScriptSent(r)).parses
  /\ Evaluate(ScriptSent(r)).failureMessage # <<>>
  /\ ui' = [ui EXCEPT !.sidebar = "failureAlert"]
  /\ req' = [req EXCEPT ![r].pc = "LOADED"]
  /\ UNCHANGED <<aws, deployment, documentProperties, cache, env, variant, gasDir,
                 chatCalls, updateCalls>>

\* the response is not a script that parses (a 500, or a message that ends
\* the string literal early): nothing runs and the sidebar stays as it is
ScriptDoesNotRun(r) ==
  /\ req[r].pc = "CLOSED"
  /\ ~(ScriptServed(r) /\ Evaluate(ScriptSent(r)).parses)
  /\ req' = [req EXCEPT ![r].pc = "LOADED"]
  /\ UNCHANGED <<outside, cache, env, variant, gasDir, chatCalls, updateCalls>>

NextInstall ==
  \/ OnOpen
  \/ NextSetup
  \/ \E r \in Reqs :
       \/ ClientSetup(r)
       \/ ScriptFinishesSetup(r)
       \/ ScriptShowsFailure(r)
       \/ ScriptDoesNotRun(r)

SpecInstall == InitInstall /\ [][NextInstall]_vars

\* ------------------------------------------------------------------------
\* Properties of the spreadsheet side of setup
\* ------------------------------------------------------------------------
\* the step sets setup_finished to 'true' from a script whose failureMessage
\* is empty, served by a GET /setup whose upload succeeded
SetByFinishSetup ==
  \E r \in Reqs :
    /\ IsSetup(r)
    /\ ScriptServed(r)
    /\ Evaluate(ScriptSent(r)).failureMessage = <<>>
    /\ UploadSucceeded(r)
    /\ documentProperties' = FinishedProperties

\* C29: the document property setup_finished changes only by being set to
\* 'true' from a served script whose failureMessage is empty, which is served
\* only after the upload of that GET /setup succeeded; once the setup step of
\* a GET /setup has failed the property is left as it is, and a menu that
\* offers only 'Setup' goes on offering only 'Setup'.
C29_FinishedOnlyAfterUpload ==
  [][/\ documentProperties' # documentProperties => SetByFinishSetup
     /\ (\E r \in Reqs : IsSetup(r) /\ SetupStepFailed(r)') =>
          /\ documentProperties' = documentProperties
          /\ ui.menu = <<"Setup">> => ui'.menu = <<"Setup">>]_vars

\* after a setup whose upload was rejected the sidebar shows the alert, the
\* property is still unset and the menu, built again, offers 'Setup'
C29_Witness ==
  \E r \in Reqs :
    /\ IsSetup(r)
    /\ req[r].pc = "LOADED"
    /\ UpdateCallsBy(r) = 1
    /\ UploadFailed(r)
    /\ ui.sidebar = "failureAlert"
    /\ ui.menu = <<"Setup">>
    /\ documentProperties = NoProperties

\* ------------------------------------------------------------------------
\* The legacy Lambda app: app.js (with the 404 handler) and its copy with the
\* security middleware
\* ------------------------------------------------------------------------
\* "logged" is the app of app.js that ends with the 404 handler, "secured" the
\* copy that calls setupSecurity(app) and adds /api-docs and /health
AppVariants == {"logged", "secured"}

\* process.env of the legacy app
AppEnv(functionName, apiKey, nodeEnv) ==
  [AWS_LAMBDA_FUNCTION_NAME |-> functionName, API_KEY |-> apiKey, NODE_ENV |-> nodeEnv]

AppEnvs ==
  {AppEnv(f, k, n) : f \in {Undefined, Str(<<"gsheetagent-Production">>)},
                     k \in {Undefined, Str(<<"k1">>)},
                     n \in {Undefined, Str(<<"development">>)}}

AppMethods == {"GET", "POST"}
AppPaths == {"/prompt", "/setup", "/health", "/api-docs", "/unknown"}
ApiKeys == {Undefined, Str(<<>>), Str(<<"k1">>), Str(<<"k2">>)}
AppBodies == {Obj(<<>>), Obj(<< << <<"prompt">>, Str(<<"Test prompt">>) >> >>)}

\* a request as it reaches the app; limited tells whether the rate limiter
\* has counted more than max requests of its address in the window
AppRequest(method, path, apiKey, body, limited) ==
  [route |-> "", pc |-> "ARRIVED", method |-> method, path |-> path,
   headers |-> [xApiKey |-> apiKey], body |-> body, limited |-> limited,
   passed |-> <<>>, thrown |-> Undefined, sent |-> <<>>]

InitApp ==
  /\ NothingOutside
  /\ cache = {}
  /\ env \in AppEnvs
  /\ variant \in AppVariants
  /\ gasDir = UnreadableDir
  /\ req \in [Reqs -> {AppRequest(m, p, k, b, l) :
                         m \in AppMethods, p \in AppPaths, k \in ApiKeys,
                         b \in AppBodies, l \in BOOLEAN}]
  /\ chatCalls = <<>>
  /\ updateCalls = <<>>

\* the route a request is dispatched to, in registration order
AppRouteOf(deployed, method, path) ==
  IF deployed = "secured" /\ path = "/api-docs" THEN "api-docs"
  ELSE IF method = "POST" /\ path = "/prompt" THEN "prompt"
  ELSE IF method = "GET" /\ path = "/setup" THEN "setup"
  ELSE IF deployed = "secured" /\ method = "GET" /\ path = "/health" THEN "health"
  ELSE "none"

\* validateApiKey with the Lambda test left out
ApiKeyAcceptedEverywhere(environment, apiKey) ==
  Truthy(apiKey) /\ apiKey = environment.API_KEY

\* validateApiKey calls next()
ApiKeyAccepted(environment, apiKey) ==
  \/ Truthy(environment.AWS_LAMBDA_FUNCTION_NAME)
  \/ Truthy(apiKey) /\ apiKey = environment.API_KEY

TooManyMessage == <<"Too many requests from this IP, please try again after 15 minutes">>
InvalidKeyMessage == <<"Invalid API key">>
NotFoundMessage == <<"Not Found">>
PromptRequiredMessage == <<"Prompt is required">>

\* formatError(err) of utils/helpers, kept as what it is applied to
formatError(message) == [t |-> "formatError", v |-> message]

\* the limiter's handler: 429
AppLimits(r) ==
  /\ req[r].pc = "ARRIVED"
  /\ variant = "secured"
  /\ req[r].limited
  /\ Send(r, 429, ErrorBody(TooManyMessage), [req[r] EXCEPT !.passed = <<"limiter">>])
  /\ UNCHANGED <<outside, cache, env, variant, gasDir, chatCalls, updateCalls>>

\* validateApiKey answers 401
AppRejectsApiKey(r) ==
  /\ req[r].pc = "ARRIVED"
  /\ variant = "secured"
  /\ ~req[r].limited
  /\ ~ApiKeyAccepted(env, req[r].headers.xApiKey)
  /\ Send(r, 401, ErrorBody(InvalidKeyMessage),
          [req[r] EXCEPT !.passed = <<"limiter", "validateApiKey">>])
  /\ UNCHANGED <<outside, cache, env, variant, gasDir, chatCalls, updateCalls>>

\* the middleware in front of the routes calls next()
AppAdmits(r) ==
  /\ req[r].pc = "ARRIVED"
  /\ variant = "secured" =>
       ~req[r].limited /\ ApiKeyAccepted(env, req[r].headers.xApiKey)
  /\ req' = [req EXCEPT ![r].pc = "ROUTING",
                        ![r].route = AppRouteOf(variant, req[r].method, req[r].path),
                        ![r].passed = IF variant = "secured"
                                      THEN <<"limiter", "validateApiKey">> ELSE <<>>]
  /\ UNCHANGED <<outside, cache, env, variant, gasDir, chatCalls, updateCalls>>

\* POST /prompt without a prompt: next(new ValidationError(..)), which the
\* error handler answers with 400
AppPromptInvalid(r) ==
  /\ req[r].pc = "ROUTING"
  /\ req[r].route = "prompt"
  /\ ~Truthy(GetProp(req[r].body, <<"prompt">>))
  /\ Send(r, 400, formatError(PromptRequiredMessage),
          [req[r] EXCEPT !.thrown = Str(PromptRequiredMessage),
                         !.passed = Append(@, "prompt")])
  /\ UNCHANGED <<outside, cache, env, variant, gasDir, chatCalls, updateCalls>>

\* POST /prompt calls generateResponse
AppPromptCalls(r) ==
  /\ req[r].pc = "ROUTING"
  /\ req[r].route = "prompt"
  /\ Truthy(GetProp(req[r].body, <<"prompt">>))
  /\ req' = [req EXCEPT ![r].pc = "GENERATING", ![r].passed = Append(@, "prompt")]
  /\ chatCalls' = Append(chatCalls, [req |-> r, service |-> "openai",
                                     prompt |-> GetProp(req[r].body, <<"prompt">>)])
  /\ UNCHANGED <<outside, cache, env, variant, gasDir, updateCalls>>

\* generateResponse resolves: res.json(response)
AppPromptResolves(r) ==
  /\ req[r].pc = "GENERATING"
  /\ Send(r, 200, LegacyResult(Str(<<"Test response">>), Usage), req[r])
  /\ UNCHANGED <<outside, cache, env, variant, gasDir, chatCalls, updateCalls>>

\* generateResponse rejects: next(error), which the error handler answers
\* with 500
AppPromptRejects(r) ==
  /\ req[r].pc = "GENERATING"
  /\ \E message \in UpstreamMessages :
       Send(r, 500, formatError(<<"OpenAI API error: ">> \o message),
            [req[r] EXCEPT !.thrown = Str(<<"OpenAI API error: ">> \o message)])
  /\ UNCHANGED <<outside, cache, env, variant, gasDir, chatCalls, updateCalls>>

\* what getSetupStatus resolves with
SetupStatuses ==
  { Obj(<< << <<"status">>, Str(<<"not_configured">>) >>,
           << <<"message">>, Str(<<"credentials.json not found">>) >> >>),
    Obj(<< << <<"status">>, Str(<<"configured">>) >>,
           << <<"message">>, Str(<<"Google API is properly configured">>) >> >>),
    Obj(<< << <<"status">>, Str(<<"needs_authentication">>) >>,
           << <<"message">>, Str(<<"Credentials found but needs authentication">>) >> >>) }

\* GET /setup calls getSetupStatus
AppSetupCalls(r) ==
  /\ req[r].pc = "ROUTING"
  /\ req[r].route = "setup"
  /\ req' = [req EXCEPT ![r].pc = "CHECKING", ![r].passed = Append(@, "setup")]
  /\ chatCalls' = Append(chatCalls, [req |-> r, service |-> "google", prompt |-> Undefined])
  /\ UNCHANGED <<outside, cache, env, variant, gasDir, updateCalls>>

\* getSetupStatus resolves (it catches its own errors): res.json(setupInfo)
AppSetupResolves(r) ==
  /\ req[r].pc = "CHECKING"
  /\ \E setupInfo \in SetupStatuses : Send(r, 200, setupInfo, req[r])
  /\ UNCHANGED <<outside, cache, env, variant, gasDir, chatCalls, updateCalls>>

\* GET /health of the secured copy
AppHealth(r) ==
  /\ req[r].pc = "ROUTING"
  /\ req[r].route = "health"
  /\ Send(r, 200,
          Obj(<< << <<"status">>, Str(<<"ok">>) >>,
                 << <<"environment">>, OrElse(env.NODE_ENV, Str(<<"development">>)) >> >>),
          [req[r] EXCEPT !.passed = Append(@, "health")])
  /\ UNCHANGED <<outside, cache, env, variant, gasDir, chatCalls, updateCalls>>

\* /api-docs of the secured copy: the documentation page
AppDocs(r) ==
  /\ req[r].pc = "ROUTING"
  /\ req[r].route = "api-docs"
  /\ Send(r, 200, Str(<<"swagger-ui">>), [req[r] EXCEPT !.passed = Append(@, "api-docs")])
  /\ UNCHANGED <<outside, cache, env, variant, gasDir, chatCalls, updateCalls>>

\* a 404 handler that answers every request it is given with 200
AppNotFoundAs200(r) ==
  /\ req[r].pc = "ROUTING"
  /\ req[r].route = "none"
  /\ Send(r, 200, ErrorBody(NotFoundMessage), req[r])
  /\ UNCHANGED <<outside, cache, env, variant, gasDir, chatCalls, updateCalls>>

\* the 404 handler, after every route
AppNotFound(r) ==
  /\ req[r].pc = "ROUTING"
  /\ req[r].route = "none"
  /\ Send(r, 404, ErrorBody(NotFoundMessage), req[r])
  /\ UNCHANGED <<outside, cache, env, variant, gasDir, chatCalls, updateCalls>>

NextApp ==
  \E r \in Reqs :
    \/ AppLimits(r)
    \/ AppRejectsApiKey(r)
    \/ AppAdmits(r)
    \/ AppPromptInvalid(r)
    \/ AppPromptCalls(r)
    \/ AppPromptResolves(r)
    \/ AppPromptRejects(r)
    \/ AppSetupCalls(r)
    \/ AppSetupResolves(r)
    \/ AppHealth(r)
    \/ AppDocs(r)
    \/ AppNotFound(r)

SpecApp == InitApp /\ [][NextApp]_vars

\* ------------------------------------------------------------------------
\* Properties of the legacy app
\* ------------------------------------------------------------------------
\* no route is registered for the method and path of r
Unrouted(r) == AppRouteOf(variant, req[r].method, req[r].path) = "none"

\* the middleware in front of the routes has let r through
Admitted(r) == req[r].pc \notin {"ARRIVED"} /\ req[r].route # ""

CarriesApiKey(r) ==
  /\ req[r].headers.xApiKey # Undefined
  /\ req[r].headers.xApiKey = env.API_KEY

\* C22: in the secured copy, in every environment, a request to any endpoint
\* whose x-api-key header is not the configured API_KEY runs no route handler
\* and, once finished, was answered 401.
C22_EveryEndpointNeedsApiKey ==
  \A r \in Reqs :
    (variant = "secured" /\ ~CarriesApiKey(r)) =>
      /\ req[r].pc \in {"ARRIVED", "CLOSED"}
      /\ Closed(r) => SentError(r, 401, InvalidKeyMessage)

\* ------------------------------------------------------------------------
\* The deployment script: aws/deploy.js
\* ------------------------------------------------------------------------
\* the polls of 10 seconds the model lets pass before the deletion wait of
\* cleanupFailedStack times out (deleteTimeout is 300000 ms, 30 polls, in
\* the script)
MaxPolls == 2

PollInterval == 10000
deleteTimeout == MaxPolls * PollInterval

\* maxRetries of updateLambdaEnvironmentWithRetry
maxRetries == 3

\* stack statuses, spelled in the words the script searches them for
DOES_NOT_EXIST == <<"DOES_NOT_EXIST">>
CREATE_IN_PROGRESS == <<"CREATE", "_", "IN_PROGRESS">>
CREATE_COMPLETE == <<"CREATE", "_", "COMPLETE">>
CREATE_FAILED == <<"CREATE", "_", "FAILED">>
ROLLBACK_COMPLETE == <<"ROLLBACK", "_", "COMPLETE">>
UPDATE_IN_PROGRESS == <<"UPDATE", "_", "IN_PROGRESS">>
UPDATE_COMPLETE == <<"UPDATE", "_", "COMPLETE">>
UPDATE_ROLLBACK_COMPLETE == <<"UPDATE", "_", "ROLLBACK", "_", "COMPLETE">>
DELETE_IN_PROGRESS == <<"DELETE", "_", "IN_PROGRESS">>
DELETE_COMPLETE == <<"DELETE", "_", "COMPLETE">>
DELETE_FAILED == <<"DELETE", "_", "FAILED">>

\* a stack of that status takes up its name
Exists(status) == status \notin {DOES_NOT_EXIST, DELETE_COMPLETE}

\* the stack's resources, the Lambda function among them, are there
Deployed(status) == status \in {CREATE_COMPLETE, UPDATE_COMPLETE, UPDATE_ROLLBACK_COMPLETE}

\* config.stackName, and the name cleanupFailedStack makes with the timestamp
StackName == "gsheetagent-Production"
TimestampedName == "gsheetagent-Production-1700000000"
StackNames == {StackName, TimestampedName}

FunctionName == Str(<<"gsheetagent-Production-fn">>)
OldBuild == Str(<<"20250101">>)
NewBuild == Str(<<"20260101">>)
FunctionUrl == Str(<<"https://abc.lambda-url.ca-central-1.on.aws/">>)

\* statements of the function's resource policy
PublicAccess == "FunctionURLAllowPublicAccess"
OtherStatement == "apigateway-invoke"

\* the resource policy of the function: GetPolicy fails with
\* ResourceNotFoundException while the function has none
NoPolicy == [exists |-> FALSE, statements |-> {}]
Policy(statements) == [exists |-> TRUE, statements |-> statements]

\* the Lambda function: its LATEST_BUILD variable, its URL configuration,
\* its resource policy and whether an update of it is in progress
Function(latestBuild, url, policy) ==
  [LATEST_BUILD |-> latestBuild, url |-> url, policy |-> policy, busy |-> FALSE]

NewFunction == Function(Undefined, Undefined, NoPolicy)

Functions ==
  {Function(b, u, p) : b \in {Undefined, OldBuild}, u \in {Undefined, FunctionUrl},
                       p \in {NoPolicy, Policy({OtherStatement}), Policy({PublicAccess}),
                              Policy({OtherStatement, PublicAccess})}}

\* the errors an AWS call fails with besides those the script looks for
InProgressMessage ==
  <<"The operation cannot be performed at this time", ". ", "An update is in progress",
    " for resource">>
OtherMessages ==
  {Str(<<"An update is in progress">>), Str(<<"Rate exceeded">>), Undefined}

\* a test for the in-progress error that looks for one of the two phrases
isUpdateInProgressErrorLoose(message) ==
  /\ Truthy(message)
  /\ Includes(message.v, <<"An update is in progress">>)

\* the test in the catch block of updateLambdaEnvironmentWithRetry
isUpdateInProgressError(message) ==
  /\ Truthy(message)
  /\ Includes(message.v, <<"The operation cannot be performed at this time">>)
  /\ Includes(message.v, <<"An update is in progress">>)

\* the test deploy() makes of the stack status before cleanupFailedStack
IsFailedStatus(stackStatus) ==
  \/ Includes(stackStatus, <<"FAILED">>)
  \/ Includes(stackStatus, <<"ROLLBACK", "_">>)
  \/ Includes(stackStatus, <<"_", "FAILED">>)

\* the run of the script: the command line (fullDeploy), the variables read
\* from .env (envVars), config.stackName, the locals of deploy() and of the
\* functions it calls, the CreateStack calls made with the status the name
\* had at that moment (creates), the outcome of each attempt of
\* updateLambdaEnvironmentWithRetry (attempts) and the line the run ends with
Run(fullDeploy, envVars) ==
  [pc |-> "START", fullDeploy |-> fullDeploy, envVars |-> envVars,
   stackName |-> StackName, stackStatus |-> DOES_NOT_EXIST, functionName |-> Undefined,
   fallback |-> FALSE, elapsed |-> 0, attempt |-> 0, attempts |-> <<>>,
   envUpdateSuccess |-> Undefined, buildNumber |-> Undefined, functionUrl |-> Undefined,
   urlSetUp |-> FALSE, creates |-> <<>>, thrown |-> Undefined, outcome |-> ""]

InitialStatuses ==
  {DOES_NOT_EXIST, CREATE_COMPLETE, UPDATE_COMPLETE, UPDATE_ROLLBACK_COMPLETE,
   ROLLBACK_COMPLETE, CREATE_FAILED, DELETE_FAILED}

\* the account: the status of each stack name, whether the template gives
\* the stack the output LambdaFunctionName, and the function
Account(status, hasOutput, fn) ==
  [stacks |-> [n \in StackNames |-> IF n = StackName THEN status ELSE DOES_NOT_EXIST],
   hasOutput |-> hasOutput, fn |-> fn]

InitDeploy ==
  /\ aws \in {Account(s, o, f) : s \in InitialStatuses, o \in BOOLEAN,
                                 f \in Functions}
  /\ Deployed(aws.stacks[StackName]) \/ aws.fn = NewFunction
  /\ deployment \in {Run(f, e) : f \in BOOLEAN, e \in BOOLEAN}
  /\ documentProperties = "none"
  /\ ui = "none"
  /\ cache = {}
  /\ env = DefaultEnv
  /\ variant = "dynamic"
  /\ gasDir = UnreadableDir
  /\ req = <<>>
  /\ chatCalls = <<>>
  /\ updateCalls = <<>>

\* what a step of the script or of the account leaves alone
elsewhere == <<documentProperties, ui, cache, env, variant, gasDir, req, chatCalls, updateCalls>>

\* the outputs of the stack named by config.stackName: getStackOutputs and
\* the find of LambdaFunctionName
OutputFunctionName ==
  IF aws.hasOutput /\ Deployed(aws.stacks[deployment.stackName])
  THEN FunctionName ELSE Undefined

\* the script goes on at pc with the locals given
Goto(pc, locals) == deployment' = [locals EXCEPT !.pc = pc]

\* an error reaches the catch of deploy(): 'Deployment failed', exit code 1
Fail(message, locals) ==
  deployment' = [locals EXCEPT !.pc = "EXITED", !.thrown = message, !.outcome = "failed"]

\* the bucket is there or is created, the code is packaged and uploaded
DeployUploads ==
  /\ deployment.pc = "START"
  /\ Goto("DESCRIBE", deployment)
  /\ UNCHANGED <<aws, elsewhere>>

\* DescribeStacks of config.stackName: the status decides the path
DeployDescribesStack ==
  /\ deployment.pc = "DESCRIBE"
  /\ LET stackStatus == aws.stacks[deployment.stackName]
     IN Goto(IF IsFailedStatus(stackStatus) THEN "DELETE"
             ELSE IF stackStatus = DOES_NOT_EXIST THEN "CREATE"
             ELSE IF deployment.fullDeploy THEN "UPDATE_STACK"
             ELSE "OUTPUTS",
             [deployment EXCEPT !.stackStatus = stackStatus])
  /\ UNCHANGED <<aws, elsewhere>>

\* cleanupFailedStack: the role's policies are removed as far as that works,
\* DeleteStack is sent and the wait starts
CleanupDeletesStack ==
  /\ deployment.pc = "DELETE"
  /\ aws' = [aws EXCEPT !.stacks[deployment.stackName] = DELETE_IN_PROGRESS]
  /\ Goto("POLLING", [deployment EXCEPT !.elapsed = 0])
  /\ UNCHANGED elsewhere

\* the deletion ends: the stack is gone, or is left in DELETE_FAILED
CloudSettlesDeletion ==
  \E n \in StackNames, status \in {DOES_NOT_EXIST, DELETE_COMPLETE, DELETE_FAILED} :
    /\ aws.stacks[n] = DELETE_IN_PROGRESS
    /\ aws' = [aws EXCEPT !.stacks[n] = status,
                          !.fn = IF status = DELETE_FAILED THEN @ ELSE NewFunction]
    /\ UNCHANGED <<deployment, elsewhere>>

\* the wait sees DELETE_COMPLETE, or that the stack does not exist
CleanupSeesDeleted ==
  /\ deployment.pc = "POLLING"
  /\ deployment.elapsed < deleteTimeout
  /\ ~Exists(aws.stacks[deployment.stackName])
  /\ Goto("CREATE", [deployment EXCEPT !.stackStatus = DOES_NOT_EXIST])
  /\ UNCHANGED <<aws, elsewhere>>

\* the wait sees DELETE_FAILED: the stack gets a name with the timestamp
CleanupSeesDeleteFailed ==
  /\ deployment.pc = "POLLING"
  /\ deployment.elapsed < deleteTimeout
  /\ aws.stacks[deployment.stackName] = DELETE_FAILED
  /\ Goto("CREATE", [deployment EXCEPT !.stackName = TimestampedName,
                                       !.stackStatus = DOES_NOT_EXIST])
  /\ UNCHANGED <<aws, elsewhere>>

\* the wait sees any other status and sleeps for 10 seconds
CleanupWaits ==
  /\ deployment.pc = "POLLING"
  /\ deployment.elapsed < deleteTimeout
  /\ Exists(aws.stacks[deployment.stackName])
  /\ aws.stacks[deployment.stackName] # DELETE_FAILED
  /\ Goto("POLLING", [deployment EXCEPT !.elapsed = @ + PollInterval])
  /\ UNCHANGED <<aws, elsewhere>>

\* deleteTimeout has passed: 'Stack deletion timed out. Continuing with new
\* stack creation...'
CleanupTimesOut ==
  /\ deployment.pc = "POLLING"
  /\ deployment.elapsed >= deleteTimeout
  /\ Goto("CREATE", [deployment EXCEPT !.stackStatus = DOES_NOT_EXIST])
  /\ UNCHANGED <<aws, elsewhere>>

\* createNewStack sends CreateStack for config.stackName; the account
\* accepts it for a name that is free
CreateNewStackSendsCreate ==
  /\ deployment.pc = "CREATE"
  /\ ~Exists(aws.stacks[deployment.stackName])
  /\ aws' = [aws EXCEPT !.stacks[deployment.stackName] = CREATE_IN_PROGRESS]
  /\ Goto("CREATING",
          [deployment EXCEPT !.creates = Append(@, [name |-> deployment.stackName,
                                                    status |-> aws.stacks[deployment.stackName]])])
  /\ UNCHANGED elsewhere

\* CreateStack for a name that is taken is refused
CreateNewStackIsRefused ==
  /\ deployment.pc = "CREATE"
  /\ Exists(aws.stacks[deployment.stackName])
  /\ Fail(Str(<<"Stack already exists">>),
          [deployment EXCEPT !.creates = Append(@, [name |-> deployment.stackName,
                                                    status |-> aws.stacks[deployment.stackName]])])
  /\ UNCHANGED <<aws, elsewhere>>

\* the creation ends: the stack and its function are there, or it is rolled
\* back
CloudSettlesCreation ==
  \E n \in StackNames, status \in {CREATE_COMPLETE, ROLLBACK_COMPLETE} :
    /\ aws.stacks[n] = CREATE_IN_PROGRESS
    /\ aws' = [aws EXCEPT !.stacks[n] = status, !.fn = NewFunction]
    /\ UNCHANGED <<deployment, elsewhere>>

\* the wait of createNewStack sees a status other than CREATE_IN_PROGRESS
\* and CREATE_COMPLETE
CreateNewStackFails ==
  /\ deployment.pc = "CREATING"
  /\ aws.stacks[deployment.stackName] \notin {CREATE_IN_PROGRESS, CREATE_COMPLETE}
  /\ Fail(Str(<<"Stack creation failed: ">> \o aws.stacks[deployment.stackName]), deployment)
  /\ UNCHANGED <<aws, elsewhere>>

\* the wait sees CREATE_COMPLETE
CreateNewStackCompletes ==
  /\ deployment.pc = "CREATING"
  /\ aws.stacks[deployment.stackName] = CREATE_COMPLETE
  /\ Goto("CREATED", deployment)
  /\ UNCHANGED <<aws, elsewhere>>

\* updateLambdaEnvironment after the creation, when the stack names its
\* function and .env gave variables: LATEST_BUILD is set with them
CreateNewStackSetsEnvironment ==
  /\ deployment.pc = "CREATED"
  /\ Truthy(OutputFunctionName)
  /\ deployment.envVars
  /\ aws' = [aws EXCEPT !.fn.LATEST_BUILD = NewBuild]
  /\ Goto("URL", [deployment EXCEPT !.functionName = OutputFunctionName,
                                    !.buildNumber = NewBuild])
  /\ UNCHANGED elsewhere

\* updateLambdaEnvironment is not called, or its error is only logged
CreateNewStackLeavesEnvironment ==
  /\ deployment.pc = "CREATED"
  /\ Goto("URL", [deployment EXCEPT !.functionName = OutputFunctionName])
  /\ UNCHANGED <<aws, elsewhere>>

\* updateFullStack sends UpdateStack and the update starts
UpdateFullStackSendsUpdate ==
  /\ deployment.pc = "UPDATE_STACK"
  /\ aws' = [aws EXCEPT !.stacks[deployment.stackName] = UPDATE_IN_PROGRESS]
  /\ Goto("UPDATING", deployment)
  /\ UNCHANGED elsewhere

\* the position reached when updateFullStack returns: the fallback reads
\* the outputs again, --full-deploy leaves functionName undefined
AfterUpdate(locals) ==
  Goto("URL", [locals EXCEPT !.functionName =
                               IF locals.fallback THEN OutputFunctionName ELSE @])

\* UpdateStack fails with 'No updates are to be performed', which is logged
UpdateFullStackFindsNothing ==
  /\ deployment.pc = "UPDATE_STACK"
  /\ AfterUpdate(deployment)
  /\ UNCHANGED <<aws, elsewhere>>

\* the update ends
CloudSettlesUpdate ==
  \E n \in StackNames, status \in {UPDATE_COMPLETE, UPDATE_ROLLBACK_COMPLETE} :
    /\ aws.stacks[n] = UPDATE_IN_PROGRESS
    /\ aws' = [aws EXCEPT !.stacks[n] = status]
    /\ UNCHANGED <<deployment, elsewhere>>

\* the wait of updateFullStack sees UPDATE_COMPLETE
UpdateFullStackCompletes ==
  /\ deployment.pc = "UPDATING"
  /\ aws.stacks[deployment.stackName] = UPDATE_COMPLETE
  /\ AfterUpdate(deployment)
  /\ UNCHANGED <<aws, elsewhere>>

\* the wait sees a status that is neither in progress nor UPDATE_COMPLETE
UpdateFullStackFails ==
  /\ deployment.pc = "UPDATING"
  /\ aws.stacks[deployment.stackName] \notin {UPDATE_IN_PROGRESS, UPDATE_COMPLETE}
  /\ Fail(Str(<<"Stack update failed: ">> \o aws.stacks[deployment.stackName]), deployment)
  /\ UNCHANGED <<aws, elsewhere>>

\* the code-only path finds no function name in the outputs and falls back
\* to updateFullStack
DeployFallsBack ==
  /\ deployment.pc = "OUTPUTS"
  /\ ~Truthy(OutputFunctionName)
  /\ Goto("UPDATE_STACK", [deployment EXCEPT !.fallback = TRUE])
  /\ UNCHANGED <<aws, elsewhere>>

\* the code-only path: UpdateFunctionCode, after which the function is being
\* updated for a while, and a build number is generated
DeployUpdatesCode ==
  /\ deployment.pc = "OUTPUTS"
  /\ Truthy(OutputFunctionName)
  /\ aws' = [aws EXCEPT !.fn.busy = TRUE]
  /\ Goto("ENV", [deployment EXCEPT !.functionName = OutputFunctionName,
                                    !.buildNumber = NewBuild, !.attempt = 1])
  /\ UNCHANGED elsewhere

\* the update of the function ends
CloudFinishesUpdate ==
  /\ aws.fn.busy
  /\ aws' = [aws EXCEPT !.fn.busy = FALSE]
  /\ UNCHANGED <<deployment, elsewhere>>

\* an attempt of updateLambdaEnvironmentWithRetry succeeds: true
RetrySucceeds ==
  /\ deployment.pc = "ENV"
  /\ ~aws.fn.busy
  /\ aws' = [aws EXCEPT !.fn.LATEST_BUILD = deployment.buildNumber]
  /\ Goto("URL", [deployment EXCEPT !.attempts = Append(@, Str(<<"ok">>)),
                                    !.envUpdateSuccess = Bool(TRUE)])
  /\ UNCHANGED elsewhere

\* what an attempt fails with: the in-progress error while the function is
\* being updated, another error at any time
AttemptErrors == (IF aws.fn.busy THEN {Str(InProgressMessage)} ELSE {}) \cup OtherMessages

\* an attempt before the last fails with the in-progress error: the next
\* one follows after retryDelay
RetryWaits ==
  /\ deployment.pc = "ENV"
  /\ deployment.attempt < maxRetries
  /\ \E error \in AttemptErrors :
       /\ isUpdateInProgressError(error)
       /\ Goto("ENV", [deployment EXCEPT !.attempts = Append(@, error), !.attempt = @ + 1])
  /\ UNCHANGED <<aws, elsewhere>>

\* the last attempt fails with the in-progress error: false
RetryGivesUp ==
  /\ deployment.pc = "ENV"
  /\ deployment.attempt >= maxRetries
  /\ \E error \in AttemptErrors :
       /\ isUpdateInProgressError(error)
       /\ Goto("URL", [deployment EXCEPT !.attempts = Append(@, error),
                                         !.envUpdateSuccess = Bool(FALSE)])
  /\ UNCHANGED <<aws, elsewhere>>

\* an attempt fails with another error, which is thrown on
RetryThrows ==
  /\ deployment.pc = "ENV"
  /\ \E error \in AttemptErrors :
       /\ ~isUpdateInProgressError(error)
       /\ Fail(error, [deployment EXCEPT !.attempts = Append(@, error)])
  /\ UNCHANGED <<aws, elsewhere>>

\* deploy() has no function name: setupFunctionUrl is not called
DeploySkipsFunctionUrl ==
  /\ deployment.pc = "URL"
  /\ ~Truthy(deployment.functionName)
  /\ Goto("FINISH", deployment)
  /\ UNCHANGED <<aws, elsewhere>>

\* setupFunctionUrl finds the URL configuration
SetupFunctionUrlFindsUrl ==
  /\ deployment.pc = "URL"
  /\ Truthy(deployment.functionName)
  /\ aws.fn.url # Undefined
  /\ Goto("POLICY", [deployment EXCEPT !.functionUrl = aws.fn.url])
  /\ UNCHANGED <<aws, elsewhere>>

\* setupFunctionUrl creates the URL configuration with AuthType NONE
SetupFunctionUrlCreatesUrl ==
  /\ deployment.pc = "URL"
  /\ Truthy(deployment.functionName)
  /\ aws.fn.url = Undefined
  /\ aws' = [aws EXCEPT !.fn.url = FunctionUrl]
  /\ Goto("POLICY", [deployment EXCEPT !.functionUrl = FunctionUrl])
  /\ UNCHANGED elsewhere

\* GetPolicy finds a policy: 'Function URL permissions already exist'
SetupFunctionUrlFindsPolicy ==
  /\ deployment.pc = "POLICY"
  /\ aws.fn.policy.exists
  /\ Goto("FINISH", [deployment EXCEPT !.urlSetUp = TRUE])
  /\ UNCHANGED <<aws, elsewhere>>

\* GetPolicy finds no policy: AddPermission adds the public statement
SetupFunctionUrlAddsPermission ==
  /\ deployment.pc = "POLICY"
  /\ ~aws.fn.policy.exists
  /\ aws' = [aws EXCEPT !.fn.policy = Policy({PublicAccess})]
  /\ Goto("FINISH", [deployment EXCEPT !.urlSetUp = TRUE])
  /\ UNCHANGED elsewhere

\* the temporary directory is removed: 'Deployment completed successfully!'
DeployCompletes ==
  /\ deployment.pc = "FINISH"
  /\ deployment' = [deployment EXCEPT !.pc = "EXITED", !.outcome = "completed"]
  /\ UNCHANGED <<aws, elsewhere>>

\* a call or a file read of deploy(), or of a function it calls outside a
\* try of its own, fails
DeployThrows ==
  /\ deployment.pc \in {"START", "DESCRIBE", "DELETE", "POLLING", "CREATE", "CREATING",
                        "UPDATE_STACK", "UPDATING", "OUTPUTS", "URL", "POLICY", "FINISH"}
  /\ Fail(Str(<<"Rate exceeded">>), deployment)
  /\ UNCHANGED <<aws, elsewhere>>

NextDeploy ==
  \/ DeployUploads
  \/ DeployDescribesStack
  \/ CleanupDeletesStack
  \/ CloudSettlesDeletion
  \/ CleanupSeesDeleted
  \/ CleanupSeesDeleteFailed
  \/ CleanupWaits
  \/ CleanupTimesOut
  \/ CreateNewStackSendsCreate
  \/ CreateNewStackIsRefused
  \/ CloudSettlesCreation
  \/ CreateNewStackFails
  \/ CreateNewStackCompletes
  \/ CreateNewStackSetsEnvironment
  \/ CreateNewStackLeavesEnvironment
  \/ UpdateFullStackSendsUpdate
  \/ UpdateFullStackFindsNothing
  \/ CloudSettlesUpdate
  \/ UpdateFullStackCompletes
  \/ UpdateFullStackFails
  \/ DeployFallsBack
  \/ DeployUpdatesCode
  \/ CloudFinishesUpdate
  \/ RetrySucceeds
  \/ RetryWaits
  \/ RetryGivesUp
  \/ RetryThrows
  \/ DeploySkipsFunctionUrl
  \/ SetupFunctionUrlFindsUrl
  \/ SetupFunctionUrlCreatesUrl
  \/ SetupFunctionUrlFindsPolicy
  \/ SetupFunctionUrlAddsPermission
  \/ DeployCompletes
  \/ DeployThrows

SpecDeploy == InitDeploy /\ [][NextDeploy]_vars

\* ------------------------------------------------------------------------
\* Properties of the deployment script
\* ------------------------------------------------------------------------
\* C23: a run that ends with 'Deployment completed successfully' has set the
\* build number generated in that run as LATEST_BUILD of the Lambda function
\* and has configured a public function URL for it, on each of its paths.
C23_CompletedRunSetsBuildAndUrl ==
  deployment.outcome = "completed" =>
    /\ aws.fn.LATEST_BUILD = NewBuild
    /\ deployment.urlSetUp
    /\ aws.fn.url # Undefined

InProgressError == Str(InProgressMessage)
Succeeded == Str(<<"ok">>)

\* C26: updateLambdaEnvironmentWithRetry makes at most 3 attempts; every
\* attempt followed by another failed with the in-progress error; it returns
\* true exactly when an attempt succeeded, which is then the last one, and
\* false exactly when the third attempt failed with the in-progress error;
\* an attempt that fails with any other error is the last one and its error
\* is thrown on.
C26_RetriesOnlyWhileInProgress ==
  LET a == deployment.attempts
      n == Len(deployment.attempts)
  IN /\ n <= 3
     /\ \A i \in 1..(n - 1) : a[i] = InProgressError
     /\ deployment.envUpdateSuccess = Bool(TRUE) <=> (n >= 1 /\ a[n] = Succeeded)
     /\ deployment.envUpdateSuccess = Bool(FALSE) <=> (n = 3 /\ a[n] = InProgressError)
     /\ (n >= 1 /\ a[n] \notin {Succeeded, InProgressError}) =>
          /\ deployment.outcome = "failed"
          /\ deployment.thrown = a[n]

\* the third attempt has failed like the two before it and false was returned
C26_Witness ==
  /\ deployment.attempts = <<InProgressError, InProgressError, InProgressError>>
  /\ deployment.envUpdateSuccess = Bool(FALSE)

\* C27: whenever setupFunctionUrl has returned, the function's resource
\* policy holds the public lambda:InvokeFunctionUrl statement, whether the URL
\* was created or found and whatever else the policy held.
C27_PublicPermissionAfterSetup ==
  deployment.urlSetUp => PublicAccess \in aws.fn.policy.statements

\* C28: every CreateStack call was made for a stack name that did not exist
\* at that moment, and the wait for the deletion never runs past its timeout.
C28_CreateOnlyForFreeName ==
  /\ \A i \in 1..Len(deployment.creates) : ~Exists(deployment.creates[i].status)
  /\ deployment.pc = "POLLING" => deployment.elapsed <= deleteTimeout

====
